---------------------------- MODULE Spec2Model ----------------------------
(***************************************************************************)
(* Runeforge selection engine (src/src/selector.rs, src/src/util.rs,       *)
(* src/src/schema.rs) as a state machine.                                  *)
(*                                                                         *)
(* Representation.                                                         *)
(*  - Option<T> is a sequence of length 0 (None) or 1 (Some(v)).           *)
(*  - A String that travels through join(", ") / split(", ") (candidate    *)
(*    names, Decision.choice, stack entries) is the sequence of its        *)
(*    segments between occurrences of ", ": "Rust" is <<"Rust">> and       *)
(*    "Edge, Local" is <<"Edge", "Local">>.                                *)
(*  - f64 metrics and weights are fixed-point hundredths (0.85 is 85).     *)
(*    A score is kept as its exact numerator over ScoreDen = 100 * 115,    *)
(*    so score = raw / 1.15 with raw in units of 1/10000.  Rounding of     *)
(*    IEEE doubles is not modelled.                                        *)
(*  - Costs are whole dollars.                                             *)
(***************************************************************************)
EXTENDS Integers, Sequences, FiniteSets, TLC

\* ------------------------------------------------------------------ bounds

\* Seeds given to Selector::new: 0..MaxSeed and the highest unsigned seed.
MaxSeed == 1

\* A blueprint differs from the base blueprint in at most MaxEdits fields.
MaxEdits == 1

\* The width of the seed: u64 and i64 are SeedBits wide.
SeedBits == 8

\* Lists of names handed to tie_breaker directly hold at most MaxNames names.
MaxNames == 3

\* ------------------------------------------------------- program constants

\* score += 0.1 * metrics.slo (hundredths)
LatencyBonus == 10

\* score += 0.05 * metrics.ops (hundredths)
GlobalBonus == 5

\* score / 1.15 (hundredths)
Normalizer == 115

\* chosen.1 > 0.8 (hundredths)
HighScore == 80

\* metrics.slo > 0.85, metrics.security > 0.85 (hundredths)
HighMetric == 85

\* (*score - top_score).abs() < 0.001 (thousandths)
TieEpsilon == 1

\* Denominator of a score numerator: weights and metrics are hundredths.
ScoreDen == 100 * Normalizer

\* ----------------------------------------------------------------- helpers

None == << >>

Some(v) == << v >>

IsSome(o) == Len(o) > 0

\* A one-segment string.
S(x) == << x >>

Abs(x) == IF x < 0 THEN -x ELSE x

Contains(seq, x) == \E k \in 1..Len(seq) : seq[k] = x

RECURSIVE Flatten(_)
Flatten(ss) == IF ss = << >> THEN << >> ELSE Head(ss) \o Flatten(Tail(ss))

Take(seq, n) == SubSeq(seq, 1, IF Len(seq) < n THEN Len(seq) ELSE n)

Skip(seq, n) == SubSeq(seq, n + 1, Len(seq))

RECURSIVE SumSeq(_)
SumSeq(seq) == IF seq = << >> THEN 0 ELSE Head(seq) + SumSeq(Tail(seq))

\* ------------------------------------------------------------------- rules

Topics ==
    << "language", "backend", "frontend", "database", "cache", "queue",
       "ai", "infra", "ci_cd" >>

TopicSet == { Topics[k] : k \in 1..Len(Topics) }

Metrics(q, s, c, sec, o) ==
    [quality |-> q, slo |-> s, cost |-> c, security |-> sec, ops |-> o]

Weights(q, s, c, sec, o) ==
    [quality |-> q, slo |-> s, cost |-> c, security |-> sec, ops |-> o]

\* struct Candidate; requires is Option<language name>.
Candidate(name, requires, persistence, metrics, regions, cost, notes) ==
    [name |-> name, requires |-> requires, persistence |-> persistence,
     metrics |-> metrics, regions |-> regions, monthly_cost_base |-> cost,
     notes |-> notes]

Anywhere == << "*" >>

\* get_test_rules(): the fixture of the unit tests.
TestRules ==
    [version |-> 1,
     weights |-> Weights(30, 25, 20, 15, 10),
     candidates |->
      [language |-> <<
         Candidate(S("Rust"), None, None, Metrics(90, 95, 80, 95, 85), Anywhere, 0, << >>),
         Candidate(S("Go"), None, None, Metrics(85, 90, 85, 90, 90), Anywhere, 0, << >>),
         Candidate(S("TypeScript"), None, None, Metrics(80, 80, 90, 80, 85), Anywhere, 0, << >>) >>,
       backend |-> <<
         Candidate(S("Actix Web"), Some(S("Rust")), None, Metrics(90, 90, 70, 80, 80), Anywhere, 100, << >>),
         Candidate(S("Axum"), Some(S("Rust")), None, Metrics(85, 85, 70, 80, 85), Anywhere, 100, << >>),
         Candidate(S("Gin"), Some(S("Go")), None, Metrics(85, 85, 75, 80, 85), Anywhere, 100, << >>),
         Candidate(S("Express"), Some(S("TypeScript")), None, Metrics(90, 75, 80, 70, 80), Anywhere, 100, << >>) >>,
       frontend |-> <<
         Candidate(S("SvelteKit"), None, None, Metrics(85, 80, 80, 80, 85), Anywhere, 50, << >>),
         Candidate(S("Next.js"), None, None, Metrics(90, 85, 75, 85, 80), << "us-east-1", "eu-west-1" >>, 50, << >>) >>,
       database |-> <<
         Candidate(S("PostgreSQL"), None, Some("sql"), Metrics(90, 85, 70, 90, 80), Anywhere, 200, << >>),
         Candidate(S("Redis"), None, Some("kv"), Metrics(85, 95, 60, 80, 85), Anywhere, 150, << >>),
         Candidate(S("DynamoDB"), None, Some("both"), Metrics(85, 90, 80, 85, 90), Anywhere, 180, << >>) >>,
       cache |-> <<
         Candidate(S("Redis"), None, None, Metrics(90, 95, 60, 85, 85), Anywhere, 100, << >>),
         Candidate(S("Memcached"), None, None, Metrics(80, 90, 70, 75, 80), Anywhere, 80, << >>) >>,
       queue |-> <<
         Candidate(S("NATS"), None, None, Metrics(85, 90, 50, 85, 90), Anywhere, 50, << >>),
         Candidate(S("RabbitMQ"), None, None, Metrics(90, 85, 60, 90, 85), Anywhere, 75, << >>) >>,
       ai |-> <<
         Candidate(S("RuneSage"), None, None, Metrics(80, 80, 70, 80, 80), Anywhere, 100, << >>),
         Candidate(S("OpenAI"), None, None, Metrics(95, 85, 50, 85, 90), Anywhere, 200, << >>),
         Candidate(S("Claude"), None, None, Metrics(90, 85, 60, 90, 85), Anywhere, 150, << >>) >>,
       infra |-> <<
         Candidate(S("Terraform"), None, None, Metrics(90, 85, 80, 90, 90), Anywhere, 0, << >>),
         Candidate(S("Pulumi"), None, None, Metrics(85, 80, 75, 85, 85), Anywhere, 0, << >>) >>,
       ci_cd |-> <<
         Candidate(S("GitHub Actions"), None, None, Metrics(85, 80, 90, 85, 90), Anywhere, 20, << >>),
         Candidate(S("GitLab CI"), None, None, Metrics(80, 75, 85, 80, 85), Anywhere, 30, << >>) >>
      ]]

TieMetrics == Metrics(80, 50, 50, 50, 50)

\* The rules of test_tie_breaker_activation: three tied backends, one
\* candidate everywhere else, costs defaulted to 0.
TieRules ==
    [version |-> 1,
     weights |-> Weights(100, 0, 0, 0, 0),
     candidates |->
      [language |-> << Candidate(S("Rust"), None, None, Metrics(90, 50, 50, 50, 50), Anywhere, 0, << >>) >>,
       backend |-> <<
         Candidate(S("Option1"), None, None, TieMetrics, Anywhere, 0, << >>),
         Candidate(S("Option2"), None, None, TieMetrics, Anywhere, 0, << >>),
         Candidate(S("Option3"), None, None, TieMetrics, Anywhere, 0, << >>) >>,
       frontend |-> << Candidate(S("Frontend1"), None, None, TieMetrics, Anywhere, 0, << >>) >>,
       database |-> << Candidate(S("DB1"), None, None, TieMetrics, Anywhere, 0, << >>) >>,
       cache |-> << Candidate(S("Cache1"), None, None, TieMetrics, Anywhere, 0, << >>) >>,
       queue |-> << Candidate(S("Queue1"), None, None, TieMetrics, Anywhere, 0, << >>) >>,
       ai |-> << Candidate(S("AI1"), None, None, TieMetrics, Anywhere, 0, << >>) >>,
       infra |-> << Candidate(S("Infra1"), None, None, TieMetrics, Anywhere, 0, << >>) >>,
       ci_cd |-> << Candidate(S("CI1"), None, None, TieMetrics, Anywhere, 0, << >>) >>
      ]]

\* The rules of test_no_suitable_candidates: one region-bound language and
\* eight empty categories.
EmptyRules ==
    [version |-> 1,
     weights |-> Weights(30, 25, 20, 15, 10),
     candidates |->
      [language |-> << Candidate(S("Rust"), None, None, Metrics(90, 95, 80, 95, 85), << "eu-only" >>, 0, << >>) >>,
       backend |-> << >>, frontend |-> << >>, database |-> << >>,
       cache |-> << >>, queue |-> << >>, ai |-> << >>, infra |-> << >>,
       ci_cd |-> << >>
      ]]

\* A rules document every field of which the Rules struct accepts and the
\* fixtures leave unused: two languages with equal metrics and a base cost,
\* a frontend and a cache that declare requires.language, region-bound
\* candidates, an untagged database, equal-scored infra candidates, notes,
\* and AI names that contain ", ".
WideRules ==
    [version |-> 1,
     weights |-> Weights(30, 25, 20, 15, 10),
     candidates |->
      [language |-> <<
         Candidate(S("Rust"), None, None, Metrics(90, 90, 85, 90, 85), Anywhere, 600, << "Memory safe" >>),
         Candidate(S("Go"), None, None, Metrics(90, 90, 85, 90, 85), Anywhere, 600, << >>),
         Candidate(S("TypeScript"), None, None, Metrics(80, 80, 90, 80, 85), Anywhere, 0, << >>) >>,
       backend |-> <<
         Candidate(S("Actix Web"), Some(S("Rust")), None, Metrics(90, 90, 70, 80, 80), Anywhere, 100, << >>),
         Candidate(S("Gin"), Some(S("Go")), None, Metrics(85, 85, 75, 80, 85), Anywhere, 100, << >>),
         Candidate(S("Express"), Some(S("TypeScript")), None, Metrics(90, 75, 80, 70, 80), Anywhere, 100, << >>),
         Candidate(S("Envoy"), None, None, Metrics(60, 60, 60, 60, 60), << "global" >>, 90, << >>) >>,
       frontend |-> <<
         Candidate(S("Next.js"), Some(S("TypeScript")), None, Metrics(95, 90, 80, 90, 85), Anywhere, 50, << >>),
         Candidate(S("SvelteKit"), None, None, Metrics(85, 80, 80, 80, 85), << "eu-west-1" >>, 50, << >>) >>,
       database |-> <<
         Candidate(S("SQLite"), None, None, Metrics(95, 95, 95, 90, 90), Anywhere, 0, << >>),
         Candidate(S("PostgreSQL"), None, Some("sql"), Metrics(90, 85, 70, 90, 80), Anywhere, 600, << >>),
         Candidate(S("DynamoDB"), None, Some("both"), Metrics(85, 90, 80, 85, 90), << "us-east-1" >>, 180, << >>) >>,
       cache |-> <<
         Candidate(S("Redis"), None, None, Metrics(90, 95, 60, 85, 85), << "eu-west-1" >>, 100, << >>),
         Candidate(S("Moka"), Some(S("Rust")), None, Metrics(80, 90, 70, 75, 80), << "global" >>, 0, << >>) >>,
       queue |-> <<
         Candidate(S("NATS"), None, None, Metrics(85, 90, 50, 85, 90), Anywhere, 50, << >>),
         Candidate(S("RabbitMQ"), None, None, Metrics(90, 85, 60, 90, 85), << "eu-west-1" >>, 75, << >>) >>,
       ai |-> <<
         Candidate(<< "Edge", "Local" >>, None, None, Metrics(90, 85, 60, 90, 85), Anywhere, 30, << >>),
         Candidate(S("Local"), None, None, Metrics(95, 85, 50, 85, 90), << "eu-west-1" >>, 70, << >>),
         Candidate(S("OpenAI"), None, None, Metrics(80, 80, 70, 80, 80), << "us-east-1", "eu-west-1" >>, 200, << >>) >>,
       infra |-> <<
         Candidate(S("Terraform"), None, None, Metrics(90, 85, 80, 90, 90), Anywhere, 0, << >>),
         Candidate(S("Pulumi"), None, None, Metrics(90, 85, 80, 90, 90), Anywhere, 0, << >>) >>,
       ci_cd |-> <<
         Candidate(S("GitHub Actions"), None, None, Metrics(85, 80, 90, 85, 90), Anywhere, 20, << >>),
         Candidate(S("GitLab CI"), None, None, Metrics(80, 75, 85, 80, 85), << "eu-west-1" >>, 30, << >>) >>
      ]]

\* Weights are five f64 read from the document; nothing checks their sign
\* or their sum.
HeavyRules == [TestRules EXCEPT !.weights = Weights(100, 100, 100, 100, 100)]

\* Two equal-scored languages, backends none of which is written in Rust,
\* five queues of which two share the top score, and five AI candidates
\* listed out of score order, two pairs of them with equal scores.
MismatchRules ==
    [TieRules EXCEPT
       !.candidates.queue = <<
         Candidate(S("Queue1"), None, None, Metrics(50, 50, 50, 50, 50), Anywhere, 0, << >>),
         Candidate(S("Queue2"), None, None, Metrics(80, 50, 50, 50, 50), Anywhere, 0, << >>),
         Candidate(S("Queue3"), None, None, Metrics(60, 50, 50, 50, 50), Anywhere, 0, << >>),
         Candidate(S("Queue4"), None, None, Metrics(70, 50, 50, 50, 50), Anywhere, 0, << >>),
         Candidate(S("Queue5"), None, None, Metrics(80, 50, 50, 50, 50), Anywhere, 0, << >>) >>,
       !.candidates.ai = <<
         Candidate(S("AI1"), None, None, Metrics(70, 50, 50, 50, 50), Anywhere, 0, << >>),
         Candidate(S("AI2"), None, None, TieMetrics, Anywhere, 0, << >>),
         Candidate(S("AI3"), None, None, TieMetrics, Anywhere, 0, << >>),
         Candidate(S("AI4"), None, None, Metrics(60, 50, 50, 50, 50), Anywhere, 0, << >>),
         Candidate(S("AI5"), None, None, Metrics(70, 50, 50, 50, 50), Anywhere, 0, << >>) >>,
       !.candidates.language = <<
         Candidate(S("Rust"), None, None, Metrics(90, 50, 50, 50, 50), Anywhere, 0, << >>),
         Candidate(S("Go"), None, None, Metrics(90, 50, 50, 50, 50), Anywhere, 0, << >>) >>,
       !.candidates.backend = <<
         Candidate(S("Gin"), Some(S("Go")), None, TieMetrics, Anywhere, 0, << >>),
         Candidate(S("Express"), Some(S("TypeScript")), None, TieMetrics, Anywhere, 0, << >>) >>]

RulesDocuments ==
    { TestRules, TieRules, EmptyRules, WideRules, HeavyRules, MismatchRules }


\* --------------------------------------------------------------- blueprint

\* PersistenceType, serialised lowercase.
PersistenceTypes == { "kv", "sql", "both" }

\* LanguageMode, serialised lowercase.
LanguageModes == { "rust", "go", "ts" }

\* get_test_blueprint(): the blueprint of the unit tests.
BaseBlueprint ==
    [project_name |-> "test-project",
     goals |-> << "Build a web app" >>,
     constraints |->
       [monthly_cost_usd_max |-> Some(1000), persistence |-> None,
        region_allow |-> None, compliance |-> None],
     traffic_profile |->
       [rps_peak |-> 1000, global |-> TRUE, latency_sensitive |-> FALSE],
     prefs |-> None,
     single_language_mode |-> None]

\* The preferences of test_preferences.
TestPrefs ==
    [frontend |-> Some(<< S("Next.js") >>), backend |-> Some(<< S("Axum") >>),
     database |-> Some(<< S("Redis") >>), ai |-> Some(<< S("Claude") >>)]

\* Preferences naming a frontend no document has, two backends of
\* WideRules, the costliest database and the lowest-scored AI candidate of
\* get_test_rules.
WidePrefs ==
    [frontend |-> Some(<< S("Astro") >>), backend |-> Some(<< S("Envoy"), S("Gin") >>),
     database |-> Some(<< S("PostgreSQL") >>), ai |-> Some(<< S("RuneSage") >>)]

CostCaps == { None, Some(100), Some(1000) }

RegionLists == { None, Some(<< "us-east-1" >>) }

ComplianceLists == { None, Some(<< >>), Some(<< "hipaa", "sox" >>) }

PrefsChoices == { None, Some(TestPrefs), Some(WidePrefs) }

BlueprintSpace ==
    { [project_name |-> BaseBlueprint.project_name,
       goals |-> BaseBlueprint.goals,
       constraints |->
         [monthly_cost_usd_max |-> cap, persistence |-> per,
          region_allow |-> reg, compliance |-> com],
       traffic_profile |->
         [rps_peak |-> BaseBlueprint.traffic_profile.rps_peak,
          global |-> glo, latency_sensitive |-> lat],
       prefs |-> prf,
       single_language_mode |-> slm] :
      cap \in CostCaps,
      per \in { None } \cup { Some(p) : p \in PersistenceTypes },
      reg \in RegionLists,
      com \in ComplianceLists,
      glo \in BOOLEAN, lat \in BOOLEAN,
      prf \in PrefsChoices,
      slm \in { None } \cup { Some(m) : m \in LanguageModes } }

\* The number of fields in which blueprint b differs from the base blueprint.
Edits(b) ==
    Cardinality(
      { f \in DOMAIN b.constraints : b.constraints[f] # BaseBlueprint.constraints[f] }
      \cup { f \in DOMAIN b.traffic_profile :
               b.traffic_profile[f] # BaseBlueprint.traffic_profile[f] }
      \cup { f \in { "prefs", "single_language_mode" } : b[f] # BaseBlueprint[f] })

Blueprints == { b \in BlueprintSpace : Edits(b) <= MaxEdits }

\* u64 seeds: the low ones and u64::MAX.
Seeds == (0..MaxSeed) \cup { 2 ^ SeedBits - 1 }


\* ------------------------------------------------------------ util.rs

\* The bytes of a topic, as hashed by tie_breaker: one code per topic.
TopicCode(topic) == CHOOSE k \in 1..Len(Topics) : Topics[k] = topic

\* SHA-256 of (topic bytes ++ seed.to_le_bytes()), first 8 bytes as a
\* little-endian u64.  The digest is replaced by a fixed mixing function of
\* the same two inputs; no property below depends on which function it is.
TopicSeed(topic, seed) == (TopicCode(topic) * 37 + seed * 29 + TopicCode(topic) * seed * 7) % 256

\* StdRng::seed_from_u64(topic_seed).gen_range(0..n): an index below n that
\* is a function of the generator's seed and of n.
GenRange(topic_seed, n) == (topic_seed \div 4) % n

\* What a panic leaves in place of a value: no name, the panic message
\* after a marker segment.
Panicked == << "panic!", "No candidates provided for tie breaker" >>

\* A tie breaker that draws from 0..=len: the index one past the end panics.
tie_breaker_inclusive(topic, seed, candidates) ==
    IF candidates = << >> THEN Panicked
    ELSE LET index == GenRange(TopicSeed(topic, seed), Len(candidates) + 1)
         IN  IF index = Len(candidates)
             THEN << "panic!", "index out of bounds" >>
             ELSE candidates[index + 1]

\* A tie breaker that answers an empty list with an empty name.
tie_breaker_default(topic, seed, candidates) ==
    IF candidates = << >> THEN << >>
    ELSE IF Len(candidates) = 1 THEN candidates[1]
    ELSE candidates[GenRange(TopicSeed(topic, seed), Len(candidates)) + 1]

tie_breaker(topic, seed, candidates) ==
    IF candidates = << >> THEN Panicked
    ELSE IF Len(candidates) = 1 THEN candidates[1]
    ELSE candidates[GenRange(TopicSeed(topic, seed), Len(candidates)) + 1]

\* serde_json::to_string of a struct: its fields in declaration order,
\* fields marked skip_serializing_if = "Option::is_none" left out when None.
ToJson(fields, value) ==
    SelectSeq([k \in 1..Len(fields) |-> << fields[k][1], value[fields[k][1]] >>],
              LAMBDA kv : ~(\E k \in 1..Len(fields) :
                              /\ fields[k][1] = kv[1]
                              /\ fields[k][2]
                              /\ kv[2] = None))

\* SHA-256 rendered as "sha256:" ++ hex: a collision-free digest of the text.
Sha256Tagged(text) == [algorithm |-> "sha256", digest_of |-> text]

calculate_blueprint_hash(blueprint_content) == Sha256Tagged(blueprint_content)

calculate_plan_hash(plan_json) == Sha256Tagged(plan_json)

\* Field lists: << name, skipped when None >>.
ConstraintsFields ==
    << << "monthly_cost_usd_max", TRUE >>, << "persistence", TRUE >>,
       << "region_allow", TRUE >>, << "compliance", TRUE >> >>

PreferencesFields ==
    << << "frontend", TRUE >>, << "backend", TRUE >>, << "database", TRUE >>,
       << "ai", TRUE >> >>

BlueprintFields ==
    << << "project_name", FALSE >>, << "goals", FALSE >>,
       << "constraints", FALSE >>, << "traffic_profile", FALSE >>,
       << "prefs", TRUE >>, << "single_language_mode", TRUE >> >>

BlueprintJson(blueprint) ==
    ToJson(BlueprintFields,
           [blueprint EXCEPT
              !.constraints = ToJson(ConstraintsFields, blueprint.constraints),
              !.prefs = IF blueprint.prefs = None THEN None
                        ELSE Some(ToJson(PreferencesFields, blueprint.prefs[1]))])

\* meta.plan_hash is a plain String and is always written.
PlanJson(plan) ==
    << << "decisions", plan.decisions >>, << "stack", plan.stack >>,
       << "estimated", plan.estimated >>,
       << "meta", << << "seed", plan.meta.seed >>,
                     << "blueprint_hash", plan.meta.blueprint_hash >>,
                     << "plan_hash", plan.meta.plan_hash >> >> >> >>


\* --------------------------------------------------------- selector.rs

\* A Selector: Selector::new keeps the parsed rules and the seed.
Selector(rules_doc, seed_value) == [rules |-> rules_doc, seed |-> seed_value]

check_constraints(candidate, blueprint) ==
    LET region_allow == blueprint.constraints.region_allow
        max_cost == blueprint.constraints.monthly_cost_usd_max
    IN  /\ IsSome(region_allow) =>
             \E k \in 1..Len(candidate.regions) :
                \/ candidate.regions[k] = "*"
                \/ candidate.regions[k] = "global"
                \/ Contains(region_allow[1], candidate.regions[k])
        /\ IsSome(max_cost) => candidate.monthly_cost_base <= max_cost[1]

\* The numerator of the score over ScoreDen.
calculate_score(self, metrics, blueprint) ==
    LET weights == self.rules.weights
        base == weights.quality * metrics.quality
                  + weights.slo * metrics.slo
                  + weights.cost * metrics.cost
                  + weights.security * metrics.security
                  + weights.ops * metrics.ops
        latency == IF blueprint.traffic_profile.latency_sensitive
                   THEN LatencyBonus * metrics.slo ELSE 0
        global == IF blueprint.traffic_profile.global
                  THEN GlobalBonus * metrics.ops ELSE 0
    IN  base + latency + global

\* A tie threshold of 0.1 in place of 0.001.
WithinTenth(a, b) == Abs(a - b) * 10 < ScoreDen

\* Two scores are tied: |a - b| < 0.001, on numerators over ScoreDen.
WithinEpsilon(a, b) == Abs(a - b) * 1000 < TieEpsilon * ScoreDen

\* slice::sort_by(|a, b| b.1.partial_cmp(&a.1)): stable, descending by the
\* second component.
RECURSIVE InsertByScore(_, _)
InsertByScore(sorted, item) ==
    IF sorted = << >> THEN << item >>
    ELSE IF Head(sorted)[2] >= item[2]
         THEN << Head(sorted) >> \o InsertByScore(Tail(sorted), item)
         ELSE << item >> \o sorted

RECURSIVE SortByScoreFrom(_, _)
SortByScoreFrom(sorted, rest) ==
    IF rest = << >> THEN sorted
    ELSE SortByScoreFrom(InsertByScore(sorted, Head(rest)), Tail(rest))

SortByScore(pairs) == SortByScoreFrom(<< >>, pairs)

\* select_best, lines 340-343: the candidates that pass check_constraints.
ConstraintFiltered(candidates, blueprint) ==
    SelectSeq(candidates, LAMBDA c : check_constraints(c, blueprint))

\* select_best, lines 346-353: the preference list of a topic.
PrefList(topic, blueprint) ==
    IF blueprint.prefs = None THEN None
    ELSE IF topic \in { "frontend", "backend", "database", "ai" }
         THEN blueprint.prefs[1][topic]
         ELSE None

\* A preference step that keeps the preferred candidates even when none is
\* left.
PreferenceStrict(topic, filtered, blueprint) ==
    LET pref_list == PrefList(topic, blueprint)
    IN  IF IsSome(pref_list)
        THEN SelectSeq(filtered, LAMBDA c : Contains(pref_list[1], c.name))
        ELSE filtered

\* A preference step that never narrows.
PreferenceIgnored(topic, filtered, blueprint) == filtered

\* select_best, lines 355-365: narrow to the preferred candidates when any.
PreferenceFiltered(topic, filtered, blueprint) ==
    LET pref_list == PrefList(topic, blueprint)
        preferred == SelectSeq(filtered, LAMBDA c : Contains(pref_list[1], c.name))
    IN  IF IsSome(pref_list) /\ preferred # << >> THEN preferred ELSE filtered

\* select_best, lines 373-392: << candidate, score >> pairs, sorted.
ScoredCandidates(self, filtered, blueprint) ==
    SortByScore([k \in 1..Len(filtered) |->
                   << filtered[k], calculate_score(self, filtered[k].metrics, blueprint) >>])

\* select_best, lines 395-400: the names within epsilon of the top score.
TiedCandidates(scored) ==
    LET tied == SelectSeq(scored, LAMBDA p : WithinEpsilon(p[2], scored[1][2]))
    IN  [k \in 1..Len(tied) |-> tied[k][1].name]

\* The tie breaker drawing among all the scored candidates, not the tied ones.
ChooseAmongAll(self, topic, scored) ==
    tie_breaker(topic, self.seed, [k \in 1..Len(scored) |-> scored[k][1].name])

\* A select_best that hands the tied names to tie_breaker however many
\* they are.
TieBreakerArgsAlways(scored) == Some(TiedCandidates(scored))

\* select_best, lines 402-403: the list tie_breaker is called with, None
\* when it is not called.
TieBreakerArgs(scored) ==
    LET tied_candidates == TiedCandidates(scored)
    IN  IF Len(tied_candidates) > 1 THEN Some(tied_candidates) ELSE None

\* select_best, lines 402-406.
ChooseName(self, topic, scored) ==
    LET args == TieBreakerArgs(scored)
    IN  IF IsSome(args)
        THEN tie_breaker(topic, self.seed, args[1])
        ELSE scored[1][1].name

\* select_best, lines 409-413: the first scored pair that carries the name.
ChosenPair(scored, choice) ==
    scored[CHOOSE k \in 1..Len(scored) :
             /\ scored[k][1].name = choice
             /\ \A j \in 1..(k - 1) : scored[j][1].name # choice]

\* Alternatives that are the first three scored names, the chosen included.
AlternativesWithChosen(scored, choice) ==
    [k \in 1..Len(Take(scored, 3)) |-> scored[k][1].name]

\* select_best, lines 416-421.
Alternatives(scored, choice) ==
    LET others == SelectSeq(scored, LAMBDA p : p[1].name # choice)
    IN  [k \in 1..Len(Take(others, 3)) |-> others[k][1].name]

\* Reasons without the closing fallback: the note of the chosen candidate,
\* when it has one, and nothing else.
ReasonsNoteOnly(topic, chosen, blueprint, language) ==
    IF chosen[1].notes # << >> THEN << S(chosen[1].notes[1]) >> ELSE << >>

\* select_best, lines 424-464.  A reason is a string, held as its segments:
\* a fixed text is one segment, a formatted one the segments of its parts.
Reasons(topic, chosen, blueprint, language) ==
    LET compliance == blueprint.constraints.compliance
        compatible ==
          IF topic = "backend" /\ IsSome(language)
          THEN << << "Compatible with " >> \o language[1] \o << " language" >> >> ELSE << >>
        high ==
          IF chosen[2] > HighScore * Normalizer
          THEN << S("High overall score across all metrics") >> ELSE << >>
        latency ==
          IF blueprint.traffic_profile.latency_sensitive /\ chosen[1].metrics.slo > HighMetric
          THEN << S("Excellent performance for latency-sensitive workload") >> ELSE << >>
        secure ==
          IF IsSome(compliance) /\ compliance[1] # << >> /\ chosen[1].metrics.security > HighMetric
          THEN << S("Strong security features for compliance requirements") >> ELSE << >>
        hipaa ==
          IF IsSome(compliance) /\ compliance[1] # << >> /\ Contains(compliance[1], "hipaa")
          THEN << S("HIPAA-compliant infrastructure support") >> ELSE << >>
        sox ==
          IF IsSome(compliance) /\ compliance[1] # << >> /\ Contains(compliance[1], "sox")
          THEN << S("SOX compliance with audit trail capabilities") >> ELSE << >>
        notes ==
          IF chosen[1].notes # << >> THEN << S(chosen[1].notes[1]) >> ELSE << >>
        reasons == compatible \o high \o latency \o secure \o hipaa \o sox \o notes
    IN  IF reasons = << >>
        THEN << << "Selected based on optimal ", topic, " score" >> >>
        ELSE reasons

Ok(value) == [ok |-> TRUE, value |-> value]

Err(message) == [ok |-> FALSE, error |-> message]

NoSuitable(topic) == << "No suitable ", topic, " candidates found" >>

select_best(self, topic, candidates, blueprint, language) ==
    LET filtered == PreferenceFiltered(topic, ConstraintFiltered(candidates, blueprint), blueprint)
        scored == ScoredCandidates(self, filtered, blueprint)
        choice == ChooseName(self, topic, scored)
        chosen == ChosenPair(scored, choice)
    IN  IF filtered = << >> THEN Err(NoSuitable(topic))
        ELSE Ok([topic |-> topic,
                 choice |-> choice,
                 reasons |-> Reasons(topic, chosen, blueprint, language),
                 alternatives |-> Alternatives(scored, choice),
                 score |-> chosen[2]])


\* match mode { Rust => "Rust", Go => "Go", Ts => "TypeScript" }
ModeName(mode) ==
    CASE mode = "rust" -> S("Rust")
      [] mode = "go" -> S("Go")
      [] mode = "ts" -> S("TypeScript")

\* A language selection that scores every language whatever the mode.
select_language_any(self, blueprint) ==
    select_best(self, "language", self.rules.candidates.language, blueprint, None)

select_language(self, blueprint) ==
    LET candidates == self.rules.candidates.language
        mode == blueprint.single_language_mode
        filtered == IF IsSome(mode)
                    THEN SelectSeq(candidates, LAMBDA c : c.name = ModeName(mode[1]))
                    ELSE candidates
    IN  select_best(self, "language", filtered, blueprint, None)

\* A database filter that lets a candidate tagged "both" serve any request.
select_database_superset(self, blueprint) ==
    LET candidates == self.rules.candidates.database
        persistence == blueprint.constraints.persistence
        filtered == IF IsSome(persistence)
                    THEN SelectSeq(candidates,
                                   LAMBDA c : /\ IsSome(c.persistence)
                                              /\ c.persistence[1] \in { persistence[1], "both" })
                    ELSE candidates
    IN  select_best(self, "database", filtered, blueprint, None)

select_database(self, blueprint) ==
    LET candidates == self.rules.candidates.database
        persistence == blueprint.constraints.persistence
        filtered == IF IsSome(persistence)
                    THEN SelectSeq(candidates,
                                   LAMBDA c : IsSome(c.persistence) /\ c.persistence[1] = persistence[1])
                    ELSE candidates
    IN  select_best(self, "database", filtered, blueprint, None)

\* select_ai, lines 255-264: << name, score >> pairs of the admissible AI
\* candidates, sorted.
ScoredAi(self, blueprint) ==
    LET admitted == ConstraintFiltered(self.rules.candidates.ai, blueprint)
    IN  SortByScore([k \in 1..Len(admitted) |->
                       << admitted[k].name, calculate_score(self, admitted[k].metrics, blueprint) >>])

\* Vec<String>::join(", "): the segments of all the strings, in order.
Join(strings) == Flatten(strings)

\* str::split(", "): one string per segment.
Split(string) == [k \in 1..Len(string) |-> << string[k] >>]

\* An AI selection that reports the mean score of the chosen candidates.
select_ai_mean(self, blueprint) ==
    LET scored_candidates == ScoredAi(self, blueprint)
        top == Take(scored_candidates, 2)
        choices == [k \in 1..Len(top) |-> top[k][1]]
        rest == Take(Skip(scored_candidates, 2), 2)
        alternatives == [k \in 1..Len(rest) |-> rest[k][1]]
    IN  IF scored_candidates = << >> THEN Err(NoSuitable("AI"))
        ELSE Ok([topic |-> "ai",
                 choice |-> Join(choices),
                 reasons |-> << S("Selected based on quality and cost balance"),
                                S("Multiple AI providers for redundancy") >>,
                 alternatives |-> alternatives,
                 score |-> SumSeq([k \in 1..Len(top) |-> top[k][2]]) \div Len(top)])

select_ai(self, blueprint) ==
    LET scored_candidates == ScoredAi(self, blueprint)
        choices == [k \in 1..Len(Take(scored_candidates, 2)) |-> scored_candidates[k][1]]
        rest == Take(Skip(scored_candidates, 2), 2)
        alternatives == [k \in 1..Len(rest) |-> rest[k][1]]
    IN  IF scored_candidates = << >> THEN Err(NoSuitable("AI"))
        ELSE Ok([topic |-> "ai",
                 choice |-> Join(choices),
                 reasons |-> << S("Selected based on quality and cost balance"),
                                S("Multiple AI providers for redundancy") >>,
                 alternatives |-> alternatives,
                 score |-> scored_candidates[1][2]])

\* The topics select_component dispatches on.
ComponentTopics == { "backend", "frontend", "cache", "queue", "infra", "ci_cd" }

\* A component selection that forgets the language requirement.
LanguageUnfiltered(candidates, language) == candidates

\* select_component, lines 313-327: the language requirement filter.
LanguageFiltered(candidates, language) ==
    IF IsSome(language)
    THEN SelectSeq(candidates,
                   LAMBDA c : IsSome(c.requires) => c.requires[1] = language[1])
    ELSE candidates

select_component(self, topic, blueprint, language) ==
    IF topic \notin ComponentTopics
    THEN Err(<< "Unknown component type: ", topic >>)
    ELSE select_best(self, topic,
                     LanguageFiltered(self.rules.candidates[topic], language),
                     blueprint, language)

\* The categories get_component_cost looks up; any other costs 0.0.
CostedTopics ==
    { "backend", "frontend", "database", "cache", "queue", "ai", "infra", "ci_cd" }

\* A cost lookup with the sign of the cost turned.
get_component_cost_negated(self, category, name) ==
    IF category \notin CostedTopics THEN 0
    ELSE LET candidates == self.rules.candidates[category]
             found == SelectSeq(candidates, LAMBDA c : c.name = name)
         IN  IF found = << >> THEN 0 ELSE 0 - found[1].monthly_cost_base

get_component_cost(self, category, name) ==
    IF category \notin CostedTopics THEN 0
    ELSE LET candidates == self.rules.candidates[category]
             found == SelectSeq(candidates, LAMBDA c : c.name = name)
         IN  IF found = << >> THEN 0 ELSE found[1].monthly_cost_base

\* A sort of the decisions that puts the later of two equal scores first.
RECURSIVE SortDecisionsLaterFirst(_)
SortDecisionsLaterFirst(ds) ==
    IF ds = << >> THEN << >>
    ELSE LET rest == SortDecisionsLaterFirst(Tail(ds))
             above == SelectSeq(rest, LAMBDA d : d.score >= Head(ds).score)
             below == SelectSeq(rest, LAMBDA d : d.score < Head(ds).score)
         IN  above \o << Head(ds) >> \o below

\* decisions.sort_by on the score, descending and stable.
SortDecisions(ds) ==
    LET sorted == SortByScore([k \in 1..Len(ds) |-> << ds[k], ds[k].score >>])
    IN  [k \in 1..Len(sorted) |-> sorted[k][1]]

\* self.seed as i64: the two's-complement reading of the unsigned seed, at
\* the width SeedBits.
AsSigned(seed_value) ==
    IF seed_value >= 2 ^ (SeedBits - 1) THEN seed_value - 2 ^ SeedBits ELSE seed_value


\* ------------------------------------------------------------ the machine

\* Two selectors are constructed from the same rules text, each with a seed
\* of its own, and select() is called on each, one call after the other
\* (test_deterministic_selection, test_different_seeds_different_results):
\* on the same blueprint, or the second on that blueprint with its prefs
\* removed (test_preferences against test_select_complete_stack).
Selectors == { 1, 2 }

VARIABLES
    rules,        \* the parsed rules document both selectors hold
    blueprint,    \* the blueprint passed to select()
    without_prefs, \* TRUE when the second call gets the blueprint with prefs removed
    concurrent,   \* TRUE when the two calls run on two threads, FALSE when one after the other
    call,         \* a call made outside select(): its operation, inputs and outcome
    seed,         \* seed[i]: the seed of selector i
    pc,           \* pc[i]: the topic select() resolves next, "finish", "plan_hash", "done"
    decisions,    \* decisions[i]: the decisions vector of the call
    total_cost,   \* total_cost[i]
    choice,       \* choice[i][topic]: the choice of the topic's decision, None before
    ai_choices,   \* ai_choices[i]: the split AI choice
    plan,         \* plan[i]: None, or Some(plan) once the plan is built
    result        \* result[i]: None while the call runs, then Some(Ok(plan)) or Some(Err(e))

vars ==
    << rules, blueprint, without_prefs, concurrent, call, seed, pc, decisions,
       total_cost, choice, ai_choices, plan, result >>

\* No call outside select() is under way.
NoCall == [op |-> "none"]

\* The blueprint call i is made on.
BlueprintOf(i) ==
    IF without_prefs /\ i = 2 THEN [blueprint EXCEPT !.prefs = None] ELSE blueprint

\* A selector that seeds itself from its own identity, not from the caller.
SelfSeededByInstance(i) == Selector(rules, (seed[i] + i) % (MaxSeed + 1))

Self(i) == Selector(rules, seed[i])

Init ==
    /\ rules \in RulesDocuments
    /\ blueprint \in Blueprints
    /\ without_prefs \in { b \in BOOLEAN : b => blueprint.prefs # None }
    /\ concurrent = FALSE
    /\ call = NoCall
    /\ seed \in [Selectors -> Seeds]
    /\ pc = [i \in Selectors |-> "language"]
    /\ decisions = [i \in Selectors |-> << >>]
    /\ total_cost = [i \in Selectors |-> 0]
    /\ choice = [i \in Selectors |-> [t \in TopicSet |-> None]]
    /\ ai_choices = [i \in Selectors |-> << >>]
    /\ plan = [i \in Selectors |-> None]
    /\ result = [i \in Selectors |-> None]

\* A single-threaded caller starts the second call when the first has
\* returned; calls on two threads run in any interleaving.
Running(i) ==
    /\ pc[i] # "done"
    /\ concurrent \/ \A j \in Selectors : j < i => pc[j] = "done"

\* A statement order that resolves the frontend before the backend.
AfterFrontendFirst(topic) ==
    CASE topic = "language" -> "frontend"
      [] topic = "frontend" -> "backend"
      [] topic = "backend" -> "database"
      [] topic = "ci_cd" -> "finish"
      [] OTHER -> Topics[TopicCode(topic) + 1]

\* The statement after the one that resolves a topic.
After(topic) ==
    IF topic = "ci_cd" THEN "finish" ELSE Topics[TopicCode(topic) + 1]

\* `?` on an Err: select() returns it.
Fail(i, error) ==
    /\ result' = [result EXCEPT ![i] = Some(Err(error))]
    /\ pc' = [pc EXCEPT ![i] = "done"]
    /\ UNCHANGED << decisions, total_cost, choice, ai_choices, plan >>

\* A push onto a cost accumulator kept in the Selector, which every call on
\* it shares.
PushShared(i, topic, d, cost) ==
    /\ decisions' = [decisions EXCEPT ![i] = Append(@, d)]
    /\ total_cost' = [j \in Selectors |-> total_cost[j] + cost]
    /\ choice' = [choice EXCEPT ![i][topic] = d.choice]
    /\ pc' = [pc EXCEPT ![i] = After(topic)]
    /\ UNCHANGED << plan, result >>

\* decisions.push(d); total_cost += cost; the local holding d is bound.
Push(i, topic, d, cost) ==
    /\ decisions' = [decisions EXCEPT ![i] = Append(@, d)]
    /\ total_cost' = [total_cost EXCEPT ![i] = @ + cost]
    /\ choice' = [choice EXCEPT ![i][topic] = d.choice]
    /\ pc' = [pc EXCEPT ![i] = After(topic)]
    /\ UNCHANGED << plan, result >>

\* select(), lines 100-102.
SelectLanguage(i) ==
    /\ Running(i)
    /\ pc[i] = "language"
    /\ LET r == select_language(Self(i), BlueprintOf(i))
       IN  IF r.ok
           THEN Push(i, "language", r.value, 0) /\ UNCHANGED ai_choices
           ELSE Fail(i, r.error)
    /\ UNCHANGED << rules, blueprint, without_prefs, concurrent, call, seed >>

\* select(), lines 104-111, 117-123 and 136-143: backend is resolved against
\* the chosen language, the other components against no language.
SelectComponent(i) ==
    /\ Running(i)
    /\ pc[i] \in ComponentTopics
    /\ LET topic == pc[i]
           language == IF topic = "backend" THEN Some(choice[i]["language"]) ELSE None
           r == select_component(Self(i), topic, BlueprintOf(i), language)
       IN  IF r.ok
           THEN /\ Push(i, topic, r.value, get_component_cost(Self(i), topic, r.value.choice))
                /\ UNCHANGED ai_choices
           ELSE Fail(i, r.error)
    /\ UNCHANGED << rules, blueprint, without_prefs, concurrent, call, seed >>

\* select(), lines 113-115.
SelectDatabase(i) ==
    /\ Running(i)
    /\ pc[i] = "database"
    /\ LET r == select_database(Self(i), BlueprintOf(i))
       IN  IF r.ok
           THEN /\ Push(i, "database", r.value,
                        get_component_cost(Self(i), "database", r.value.choice))
                /\ UNCHANGED ai_choices
           ELSE Fail(i, r.error)
    /\ UNCHANGED << rules, blueprint, without_prefs, concurrent, call, seed >>

\* select(), lines 125-134: the joined choice is split again and every part
\* is looked up for its cost.
SelectAi(i) ==
    /\ Running(i)
    /\ pc[i] = "ai"
    /\ LET r == select_ai(Self(i), BlueprintOf(i))
       IN  IF r.ok
           THEN LET parts == Split(r.value.choice)
                    costs == [k \in 1..Len(parts) |->
                                get_component_cost(Self(i), "ai", parts[k])]
                IN  /\ Push(i, "ai", r.value, SumSeq(costs))
                    /\ ai_choices' = [ai_choices EXCEPT ![i] = parts]
           ELSE Fail(i, r.error)
    /\ UNCHANGED << rules, blueprint, without_prefs, concurrent, call, seed >>

BudgetError(max_cost) == << "No stack found within cost constraint of $", max_cost >>

\* select(), lines 162-172.
BuildStack(i) ==
    [language |-> choice[i]["language"],
     frontend |-> choice[i]["frontend"],
     backend |-> choice[i]["backend"],
     database |-> choice[i]["database"],
     cache |-> choice[i]["cache"],
     queue |-> choice[i]["queue"],
     ai |-> ai_choices[i],
     infra |-> choice[i]["infra"],
     ci_cd |-> choice[i]["ci_cd"]]

\* select(), lines 145-189: sort the decisions, check the total against the
\* cap, build the stack and the plan with an empty plan_hash.
Finish(i) ==
    /\ Running(i)
    /\ pc[i] = "finish"
    /\ LET sorted == SortDecisions(decisions[i])
           max_cost == BlueprintOf(i).constraints.monthly_cost_usd_max
       IN  IF IsSome(max_cost) /\ total_cost[i] > max_cost[1]
           THEN /\ result' = [result EXCEPT ![i] = Some(Err(BudgetError(max_cost[1])))]
                /\ pc' = [pc EXCEPT ![i] = "done"]
                /\ decisions' = [decisions EXCEPT ![i] = sorted]
                /\ UNCHANGED plan
           ELSE /\ decisions' = [decisions EXCEPT ![i] = sorted]
                /\ plan' = [plan EXCEPT ![i] =
                     Some([decisions |-> sorted,
                           stack |-> BuildStack(i),
                           estimated |-> [monthly_cost_usd |-> total_cost[i]],
                           meta |-> [seed |-> AsSigned(seed[i]),
                                     blueprint_hash |->
                                       calculate_blueprint_hash(BlueprintJson(BlueprintOf(i))),
                                     plan_hash |-> << >>]])]
                /\ pc' = [pc EXCEPT ![i] = "plan_hash"]
                /\ UNCHANGED result
    /\ UNCHANGED << rules, blueprint, without_prefs, concurrent, call, seed, total_cost, choice, ai_choices >>

\* A fill step that hashes the plan as it was before the seed was placed
\* in it.
FillPlanHashBeforeSeed(i) ==
    /\ Running(i)
    /\ pc[i] = "plan_hash"
    /\ LET plan_hash == calculate_plan_hash(PlanJson([plan[i][1] EXCEPT !.meta.seed = 0]))
           final_plan == [plan[i][1] EXCEPT !.meta.plan_hash = plan_hash]
       IN  /\ plan' = [plan EXCEPT ![i] = Some(final_plan)]
           /\ result' = [result EXCEPT ![i] = Some(Ok(final_plan))]
    /\ pc' = [pc EXCEPT ![i] = "done"]
    /\ UNCHANGED << rules, blueprint, without_prefs, concurrent, call, seed, decisions, total_cost, choice, ai_choices >>

\* select(), lines 191-199: hash the serialised plan, fill plan_hash, return.
FillPlanHash(i) ==
    /\ Running(i)
    /\ pc[i] = "plan_hash"
    /\ LET plan_hash == calculate_plan_hash(PlanJson(plan[i][1]))
           final_plan == [plan[i][1] EXCEPT !.meta.plan_hash = plan_hash]
       IN  /\ plan' = [plan EXCEPT ![i] = Some(final_plan)]
           /\ result' = [result EXCEPT ![i] = Some(Ok(final_plan))]
    /\ pc' = [pc EXCEPT ![i] = "done"]
    /\ UNCHANGED << rules, blueprint, without_prefs, concurrent, call, seed, decisions, total_cost, choice, ai_choices >>

Next ==
    \E i \in Selectors :
        \/ SelectLanguage(i)
        \/ SelectComponent(i)
        \/ SelectDatabase(i)
        \/ SelectAi(i)
        \/ Finish(i)
        \/ FillPlanHash(i)

Spec == Init /\ [][Next]_vars


\* ------------------------------------------------- vocabulary of the claims

Done(i) == pc[i] = "done"

Returned(i) == Done(i) /\ result[i] # None /\ result[i][1].ok

Failed(i) == Done(i) /\ result[i] # None /\ ~result[i][1].ok

PlanOf(i) == result[i][1].value

ErrorOf(i) == result[i][1].error

\* The candidates of a category that carry a name.
Named(topic, name) == SelectSeq(rules.candidates[topic], LAMBDA c : c.name = name)

\* baseCost(category, name) of the rules catalog, for every category.
BaseCost(topic, name) ==
    IF Named(topic, name) = << >> THEN 0 ELSE Named(topic, name)[1].monthly_cost_base

\* The names a stack holds for a category.
StackNames(stack, topic) == IF topic = "ai" THEN stack.ai ELSE << stack[topic] >>

\* The base cost of everything a stack names, language included.
StackCost(stack) ==
    SumSeq([k \in 1..Len(Topics) |->
              SumSeq([j \in 1..Len(StackNames(stack, Topics[k])) |->
                        BaseCost(Topics[k], StackNames(stack, Topics[k])[j])])])

\* Every category of call i has a decision.
AllChosen(i) == \A t \in TopicSet : choice[i][t] # None

\* The stack call i has chosen, whether or not a plan is returned.
ChosenStack(i) == BuildStack(i)

CostCap == blueprint.constraints.monthly_cost_usd_max

\* ------------------------------------------------------------------- C1

BudgetEnforced ==
    \A i \in Selectors :
        (Done(i) /\ AllChosen(i) /\ IsSome(CostCap) /\ StackCost(ChosenStack(i)) > CostCap[1])
            => result[i] = Some(Err(BudgetError(CostCap[1])))

\* ------------------------------------------------------------------- C3

\* C3 (cost aggregation): a returned plan's estimated.monthly_cost_usd is
\* the sum of monthly_cost_base over the chosen candidates of all nine
\* categories, the AI category contributing each name of stack.ai.
CostAggregated ==
    \A i \in Selectors :
        Returned(i) => PlanOf(i).estimated.monthly_cost_usd = StackCost(PlanOf(i).stack)

\* ------------------------------------------------------------------- C4

\* A candidate's regions hold "*", "global" or a region of the allow-list.
RegionAdmissible(c) ==
    \E k \in 1..Len(c.regions) :
        \/ c.regions[k] \in { "*", "global" }
        \/ Contains(blueprint.constraints.region_allow[1], c.regions[k])

\* C4 (region filter): with a region allow-list set, no name in the returned
\* stack, in any of the nine categories and for each AI name, is the name of
\* a candidate whose regions hold neither "*", nor "global", nor an allowed
\* region.
RegionFiltered ==
    \A i \in Selectors :
        (Returned(i) /\ IsSome(blueprint.constraints.region_allow)) =>
            \A t \in TopicSet :
                \A k \in 1..Len(StackNames(PlanOf(i).stack, t)) :
                    \A j \in 1..Len(Named(t, StackNames(PlanOf(i).stack, t)[k])) :
                        RegionAdmissible(Named(t, StackNames(PlanOf(i).stack, t)[k])[j])

\* ------------------------------------------------------------------- C5

\* The candidates the stack of a plan names in a category.
StackCandidates(stack, topic) ==
    SelectSeq(rules.candidates[topic],
              LAMBDA c : Contains(StackNames(stack, topic), c.name))

\* A candidate declares no required language, or the given one.
CompatibleWith(c, language) == c.requires = None \/ c.requires[1] = language

\* C5 (language dependency, all categories): in a returned plan no chosen
\* candidate of any category declares a required language other than the
\* chosen language, and a backend candidate that declares none and passes
\* the constraints keeps the backend category from running empty.
LanguageDependency ==
    \A i \in Selectors :
        /\ Returned(i) =>
             \A t \in TopicSet :
                \A k \in 1..Len(StackCandidates(PlanOf(i).stack, t)) :
                    CompatibleWith(StackCandidates(PlanOf(i).stack, t)[k],
                                   PlanOf(i).stack.language)
        /\ ( /\ Done(i)
             /\ choice[i]["language"] # None
             /\ \E k \in 1..Len(rules.candidates.backend) :
                   /\ rules.candidates.backend[k].requires = None
                   /\ check_constraints(rules.candidates.backend[k], blueprint) )
           => result[i] # Some(Err(NoSuitable("backend")))

\* ------------------------------------------------------------------- C6

\* C6 (backend compatibility): the backend of a returned plan declares no
\* required language or exactly the language of the same plan; when a
\* language is chosen and every backend candidate requires another one,
\* select() fails with the no-candidate error of the backend category.
BackendCompatible ==
    \A i \in Selectors :
        /\ Returned(i) =>
             \A k \in 1..Len(StackCandidates(PlanOf(i).stack, "backend")) :
                CompatibleWith(StackCandidates(PlanOf(i).stack, "backend")[k],
                               PlanOf(i).stack.language)
        /\ ( /\ Done(i)
             /\ choice[i]["language"] # None
             /\ \A k \in 1..Len(rules.candidates.backend) :
                   ~CompatibleWith(rules.candidates.backend[k], choice[i]["language"]) )
           => result[i] = Some(Err(NoSuitable("backend")))

\* One seed led to Go and a plan with the Go backend, the other to Rust and
\* the backend error, every backend requiring Go or TypeScript.
BackendCompatibleWitness ==
    /\ rules = MismatchRules
    /\ \E i, j \in Selectors :
          /\ Returned(i)
          /\ PlanOf(i).stack.language = S("Go")
          /\ PlanOf(i).stack.backend = S("Gin")
          /\ Failed(j)
          /\ choice[j]["language"] = S("Rust")
          /\ ErrorOf(j) = NoSuitable("backend")

\* ------------------------------------------------------------------- C7

RequestedPersistence == blueprint.constraints.persistence

\* Some database candidate carries exactly the requested tag.
SomeCarries(p) ==
    \E k \in 1..Len(rules.candidates.database) :
        rules.candidates.database[k].persistence = Some(p)

\* The chosen database carries exactly the requested tag.
ExactPersistence(i) ==
    (Returned(i) /\ IsSome(RequestedPersistence)) =>
        \A k \in 1..Len(StackCandidates(PlanOf(i).stack, "database")) :
            StackCandidates(PlanOf(i).stack, "database")[k].persistence
              = RequestedPersistence

\* C7 as stated (persistence is an exact match): the chosen database carries
\* the requested tag, and when no database candidate carries it select()
\* fails with the no-candidate error of the database category.
PersistenceExactOrDatabaseError ==
    \A i \in Selectors :
        /\ ExactPersistence(i)
        /\ ( /\ Done(i)
             /\ IsSome(RequestedPersistence)
             /\ ~SomeCarries(RequestedPersistence[1]) )
           => result[i] = Some(Err(NoSuitable("database")))

\* C7 as amended: the chosen database carries the requested tag, and when no
\* database candidate carries it and the language, backend and frontend
\* categories have resolved, select() fails with the no-candidate error of
\* the database category.
PersistenceExact ==
    \A i \in Selectors :
        /\ ExactPersistence(i)
        /\ ( /\ Done(i)
             /\ IsSome(RequestedPersistence)
             /\ ~SomeCarries(RequestedPersistence[1])
             /\ \A t \in { "language", "backend", "frontend" } : choice[i][t] # None )
           => result[i] = Some(Err(NoSuitable("database")))

\* A kv request was served by the kv candidate although a candidate tagged
\* "both" scores higher.
PersistenceExactWitness ==
    /\ rules = TestRules
    /\ RequestedPersistence = Some("kv")
    /\ Returned(1)
    /\ PlanOf(1).stack.database = S("Redis")
    /\ \E k \in 1..Len(rules.candidates.database) :
          /\ rules.candidates.database[k].persistence = Some("both")
          /\ calculate_score(Self(1), rules.candidates.database[k].metrics, blueprint)
               > calculate_score(Self(1), Named("database", S("Redis"))[1].metrics, blueprint)

\* ------------------------------------------------------- C8 and C9

NonAiTopics == TopicSet \ { "ai" }

\* The decision call i pushed for a topic.
DecisionOf(i, topic) ==
    decisions[i][CHOOSE k \in 1..Len(decisions[i]) : decisions[i][k].topic = topic]

\* The candidates of a topic that call i hands to the constraint filter:
\* the language named by single_language_mode, the databases that carry the
\* requested tag, the backends compatible with the language call i chose.
PreFiltered(i, topic) ==
    LET candidates == rules.candidates[topic]
        mode == blueprint.single_language_mode
    IN  CASE topic = "language" /\ IsSome(mode) ->
               SelectSeq(candidates, LAMBDA c : c.name = ModeName(mode[1]))
          [] topic = "database" /\ IsSome(RequestedPersistence) ->
               SelectSeq(candidates, LAMBDA c : c.persistence = RequestedPersistence)
          [] topic = "backend" ->
               SelectSeq(candidates, LAMBDA c : CompatibleWith(c, choice[i]["language"]))
          [] OTHER -> candidates

\* The candidates that remain after constraint and preference filtering.
Remaining(i, topic) ==
    PreferenceFiltered(topic, ConstraintFiltered(PreFiltered(i, topic), blueprint),
                       BlueprintOf(i))

\* The score of a candidate; no seed enters it.
ScoreOf(c) == calculate_score(Selector(rules, 0), c.metrics, blueprint)

\* The highest score among a sequence of candidates.
TopScore(R) ==
    LET scores == { ScoreOf(R[k]) : k \in 1..Len(R) }
    IN  CHOOSE s \in scores : \A other \in scores : other <= s

\* The positions in R of the tied top group: score within 0.001 of the
\* highest.
TopGroupOf(R) ==
    LET top == TopScore(R)
    IN  { k \in 1..Len(R) : (top - ScoreOf(R[k])) * 1000 < TieEpsilon * ScoreDen }

TopGroup(i, topic) == TopGroupOf(Remaining(i, topic))

HadTie(i, topic) == topic # "ai" /\ Cardinality(TopGroup(i, topic)) > 1

Differs(topic) == StackNames(PlanOf(1).stack, topic) # StackNames(PlanOf(2).stack, topic)

\* C8 as stated (seed sensitivity only on ties): two successful calls on
\* the same blueprint and rules carry the same blueprint_hash, and every
\* category whose chosen candidate differs between the two plans had more
\* than one candidate in its tied top group.
SeedChangesOnlyTiedCategories ==
    (BlueprintOf(1) = BlueprintOf(2) /\ Returned(1) /\ Returned(2)) =>
        /\ PlanOf(1).meta.blueprint_hash = PlanOf(2).meta.blueprint_hash
        /\ \A t \in TopicSet : Differs(t) => (HadTie(1, t) \/ HadTie(2, t))

\* C8 as amended: the blueprint_hash is the same; every category other than
\* backend whose chosen candidate differs had a tied top group of more than
\* one; the backend differs only when its own top group was tied or the two
\* calls chose different languages.
SeedSensitivityOnTies ==
    (BlueprintOf(1) = BlueprintOf(2) /\ Returned(1) /\ Returned(2)) =>
        /\ PlanOf(1).meta.blueprint_hash = PlanOf(2).meta.blueprint_hash
        /\ \A t \in TopicSet \ { "backend" } : Differs(t) => (HadTie(1, t) /\ HadTie(2, t))
        /\ Differs("backend") =>
             \/ Differs("language")
             \/ (HadTie(1, "backend") /\ HadTie(2, "backend"))

\* Two seeds broke the language tie and the infra tie differently; the
\* backend followed the language, and no other category moved.
SeedSensitivityOnTiesWitness ==
    /\ rules = WideRules
    /\ BlueprintOf(1) = BlueprintOf(2)
    /\ seed[1] # seed[2]
    /\ Returned(1) /\ Returned(2)
    /\ Differs("language") /\ Differs("backend") /\ Differs("infra")
    /\ ~HadTie(1, "backend")
    /\ \A t \in TopicSet \ { "language", "backend", "infra" } : ~Differs(t)

\* C9 (tie-break stays in the tied set): for every category but ai, the
\* chosen candidate is one of the remaining candidates whose score is
\* within 0.001 of the highest remaining score, the decision carries that
\* candidate's own score, and a top group of one is chosen whatever the seed.
TieBreakInTiedSet ==
    /\ \A i \in Selectors : \A t \in NonAiTopics :
          (Done(i) /\ choice[i][t] # None) =>
             LET R == Remaining(i, t)
                 d == DecisionOf(i, t)
             IN  \E k \in TopGroupOf(R) :
                    /\ R[k].name = d.choice
                    /\ d.score = ScoreOf(R[k])
    /\ \A t \in NonAiTopics :
          (Done(1) /\ Done(2) /\ choice[1][t] # None /\ choice[2][t] # None) =>
             LET R == Remaining(1, t)
                 G == TopGroupOf(R)
             IN  (R = Remaining(2, t) /\ Cardinality(G) = 1) =>
                    /\ choice[1][t] = choice[2][t]
                    /\ \A k \in G : choice[1][t] = R[k].name

\* Three tied backends, two seeds, two different picks; the single language
\* is chosen by both.
TieBreakInTiedSetWitness ==
    /\ rules = TieRules
    /\ Returned(1) /\ Returned(2)
    /\ Cardinality(TopGroup(1, "backend")) = 3
    /\ PlanOf(1).stack.backend # PlanOf(2).stack.backend
    /\ Cardinality(TopGroup(1, "language")) = 1
    /\ PlanOf(1).stack.language = PlanOf(2).stack.language

\* ------------------------------------------------------------------ C10

\* Every metric of every candidate of the rules document lies in [0, 1].
MetricsInUnit ==
    \A t \in TopicSet : \A k \in 1..Len(rules.candidates[t]) :
        \A m \in DOMAIN rules.candidates[t][k].metrics :
            rules.candidates[t][k].metrics[m] \in 0..100

\* C10 (score bounds): given only that every candidate metric lies in
\* [0, 1], every decision of every returned plan has a score in [0, 1],
\* whatever the latency_sensitive and global flags.
ScoreBounds ==
    MetricsInUnit =>
        \A i \in Selectors :
            Returned(i) =>
                \A k \in 1..Len(PlanOf(i).decisions) :
                    /\ PlanOf(i).decisions[k].score >= 0
                    /\ PlanOf(i).decisions[k].score <= ScoreDen

\* ------------------------------------------------------------------ C11

\* C11 (decision ordering): a returned plan holds nine decisions, one per
\* topic, in non-increasing score order, and decisions of equal score stand
\* in the category order language, backend, frontend, database, cache,
\* queue, ai, infra, ci_cd.
DecisionOrdering ==
    \A i \in Selectors :
        Returned(i) =>
            LET ds == PlanOf(i).decisions
            IN  /\ Len(ds) = 9
                /\ \A t \in TopicSet :
                      Cardinality({ k \in 1..Len(ds) : ds[k].topic = t }) = 1
                /\ \A k \in 1..(Len(ds) - 1) :
                      /\ ds[k].score >= ds[k + 1].score
                      /\ ds[k].score = ds[k + 1].score
                           => TopicCode(ds[k].topic) < TopicCode(ds[k + 1].topic)

\* A returned plan whose decisions were reordered by the sort and in which
\* two decisions of equal score stand next to each other.
DecisionOrderingWitness ==
    /\ Returned(1)
    /\ PlanOf(1).decisions[1].topic # "language"
    /\ \E k \in 1..8 : PlanOf(1).decisions[k].score = PlanOf(1).decisions[k + 1].score

\* ------------------------------------------------------------------ C12

\* The constraint-admissible AI candidates of call i.
AdmissibleAi(i) == ConstraintFiltered(rules.candidates.ai, BlueprintOf(i))

\* The candidates of a topic left when call i resolves it.
PostFilter(i, topic) == IF topic = "ai" THEN AdmissibleAi(i) ELSE Remaining(i, topic)

\* The no-candidate error of a topic; the AI category is spelled "AI".
NoCandidateError(topic) == NoSuitable(IF topic = "ai" THEN "AI" ELSE topic)

\* The topics call i has resolved.
Resolved(i) == { t \in TopicSet : choice[i][t] # None }

\* C12 (failure follows the category order): the resolved categories are
\* always an initial part of the order language, backend, frontend,
\* database, cache, queue, ai, infra, ci_cd and each had a candidate left;
\* a call that ends without all nine resolved ends with the no-candidate
\* error of the first unresolved category, whose post-filter set is empty,
\* and with no plan; the budget error is returned only with all nine
\* resolved, and a plan only with all nine resolved.
FailureFollowsOrder ==
    \A i \in Selectors :
        /\ \A k \in 1..(Len(Topics) - 1) :
              Topics[k + 1] \in Resolved(i) => Topics[k] \in Resolved(i)
        /\ Done(i) =>
              /\ \A t \in Resolved(i) : PostFilter(i, t) # << >>
              /\ Resolved(i) # TopicSet =>
                    LET first == Topics[Cardinality(Resolved(i)) + 1]
                    IN  /\ PostFilter(i, first) = << >>
                        /\ result[i] = Some(Err(NoCandidateError(first)))
                        /\ plan[i] = None
              /\ (Failed(i) /\ IsSome(CostCap) /\ ErrorOf(i) = BudgetError(CostCap[1]))
                    => Resolved(i) = TopicSet
              /\ Returned(i) => Resolved(i) = TopicSet

\* A call that failed at the database after three categories resolved, in a
\* document whose later categories all have candidates.
FailureFollowsOrderWitness ==
    /\ rules = TieRules
    /\ Failed(1)
    /\ Resolved(1) = { "language", "backend", "frontend" }
    /\ ErrorOf(1) = NoSuitable("database")
    /\ plan[1] = None

\* ------------------------------------------------------------------ C13

\* Call 1 is made with the preference lists, call 2 on the same blueprint
\* without them, both with the same seed.
WithAndWithoutPrefs == without_prefs /\ seed[1] = seed[2] /\ Done(1) /\ Done(2)

\* C13 as stated (preferences never cause failure): when select() succeeds
\* on the blueprint with its preference lists removed, it succeeds on the
\* blueprint with them.
PreferencesNeverFail ==
    (WithAndWithoutPrefs /\ Returned(2)) => Returned(1)

\* C13 as amended: when select() succeeds on the blueprint with its
\* preference lists removed, then with them every category still resolves:
\* select() succeeds, or fails with the budget error after all nine
\* categories resolved, never with a no-candidate error.
PreferencesNeverEmptyACategory ==
    (WithAndWithoutPrefs /\ Returned(2)) =>
        /\ Resolved(1) = TopicSet
        /\ \/ Returned(1)
           \/ (IsSome(CostCap) /\ result[1] = Some(Err(BudgetError(CostCap[1]))))

\* Both calls succeeded and the preferences changed the stack, one list
\* naming no candidate of the document.
PreferencesNeverEmptyACategoryWitness ==
    /\ WithAndWithoutPrefs
    /\ blueprint.prefs = Some(WidePrefs)
    /\ Returned(1) /\ Returned(2)
    /\ PlanOf(1).stack.database # PlanOf(2).stack.database
    /\ PlanOf(1).stack.frontend = PlanOf(2).stack.frontend

\* ------------------------------------------------------------------ C14

PreferenceTopics == { "frontend", "backend", "database" }

\* The candidates of a topic that reach the preference step of call i.
Admissible(i, topic) == ConstraintFiltered(PreFiltered(i, topic), blueprint)

\* Call i has a preference list for the topic.
HasPrefList(i, topic) ==
    BlueprintOf(i).prefs # None /\ IsSome(BlueprintOf(i).prefs[1][topic])

\* The preference list of call i names a candidate that reaches the
\* preference step.
NamesAdmissible(i, topic) ==
    /\ HasPrefList(i, topic)
    /\ \E k \in 1..Len(Admissible(i, topic)) :
          Contains(BlueprintOf(i).prefs[1][topic][1], Admissible(i, topic)[k].name)

\* C14 (preference restriction): for frontend, backend and database, when
\* the preference list names an admissible candidate, the choice and every
\* alternative are names of the list; when it names none, the choice is the
\* one made without preference lists.
PreferenceRestriction ==
    \A t \in PreferenceTopics :
        /\ \A i \in Selectors :
              (Done(i) /\ choice[i][t] # None /\ NamesAdmissible(i, t)) =>
                 LET list == BlueprintOf(i).prefs[1][t][1]
                     d == DecisionOf(i, t)
                 IN  /\ Contains(list, d.choice)
                     /\ \A k \in 1..Len(d.alternatives) : Contains(list, d.alternatives[k])
        /\ ( /\ WithAndWithoutPrefs
             /\ choice[1][t] # None /\ choice[2][t] # None
             /\ HasPrefList(1, t) /\ ~NamesAdmissible(1, t) )
           => choice[1][t] = choice[2][t]

\* The database list named an admissible candidate and moved the choice,
\* the frontend list named none and the frontend stayed; a backend list of
\* two left an alternative.
PreferenceRestrictionWitness ==
    /\ WithAndWithoutPrefs
    /\ rules = WideRules
    /\ blueprint.prefs = Some(WidePrefs)
    /\ Resolved(1) = TopicSet /\ Resolved(2) = TopicSet
    /\ NamesAdmissible(1, "database")
    /\ choice[1]["database"] # choice[2]["database"]
    /\ ~NamesAdmissible(1, "frontend")
    /\ choice[1]["frontend"] = choice[2]["frontend"]
    /\ DecisionOf(1, "backend").alternatives # << >>

\* ------------------------------------------------------------------ C15

\* C15 (AI preferences are honoured): when prefs.ai names a
\* constraint-admissible AI candidate, stack.ai of the returned plan holds
\* that name.
AiPreferenceHonoured ==
    \A i \in Selectors :
        (Returned(i) /\ HasPrefList(i, "ai")) =>
            \A k \in 1..Len(AdmissibleAi(i)) :
                Contains(BlueprintOf(i).prefs[1]["ai"][1], AdmissibleAi(i)[k].name)
                    => Contains(PlanOf(i).stack.ai, AdmissibleAi(i)[k].name)

\* ------------------------------------------------------------------ C16

\* The rank of the k-th candidate of A: one more than the number of
\* candidates with a higher score, or with the same score and listed before.
RankIn(A, k) ==
    1 + Cardinality({ j \in 1..Len(A) :
                        \/ ScoreOf(A[j]) > ScoreOf(A[k])
                        \/ (ScoreOf(A[j]) = ScoreOf(A[k]) /\ j < k) })

\* The candidates of A by rank.
Ranked(A) == [r \in 1..Len(A) |-> A[CHOOSE k \in 1..Len(A) : RankIn(A, k) = r]]

\* The names of the candidates ranked from..to, as far as there are any.
RankedNames(A, from, to) ==
    LET ranked == Ranked(A)
        last == IF Len(A) < to THEN Len(A) ELSE to
    IN  [k \in 1..(IF last < from THEN 0 ELSE last - from + 1) |-> ranked[from + k - 1].name]

\* C16 (AI selection): the AI decision ranks the constraint-admissible AI
\* candidates by score, descending, equal scores in source order; its
\* choice is the first two names, joined, its alternatives the third and
\* fourth, its score the score of the first-ranked candidate; two calls
\* with different seeds make the same AI decision.
AiSelection ==
    /\ \A i \in Selectors :
          (Done(i) /\ choice[i]["ai"] # None) =>
             LET A == AdmissibleAi(i)
                 d == DecisionOf(i, "ai")
             IN  /\ d.choice = Join(RankedNames(A, 1, 2))
                 /\ d.alternatives = RankedNames(A, 3, 4)
                 /\ d.score = ScoreOf(Ranked(A)[1])
    /\ (Done(1) /\ Done(2) /\ choice[1]["ai"] # None /\ choice[2]["ai"] # None)
          => DecisionOf(1, "ai") = DecisionOf(2, "ai")

\* Five admissible AI candidates listed out of score order: the two equal
\* top scores are chosen in source order, the two equal next scores are the
\* alternatives in source order, the lowest is left out; the seeds differ.
AiSelectionWitness ==
    /\ rules = MismatchRules
    /\ seed[1] # seed[2]
    /\ Done(1) /\ Done(2)
    /\ choice[1]["ai"] = Join(<< S("AI2"), S("AI3") >>)
    /\ choice[2]["ai"] = choice[1]["ai"]
    /\ DecisionOf(1, "ai").alternatives = << S("AI1"), S("AI5") >>
    /\ DecisionOf(1, "ai").score = ScoreOf(Named("ai", S("AI2"))[1])

\* ------------------------------------------------------------------ C17

\* C17 (the AI slot holds two): stack.ai of every returned plan holds
\* exactly two entries, different from each other, each the name of an AI
\* candidate of the rules document.
AiSlotHoldsTwo ==
    \A i \in Selectors :
        Returned(i) =>
            LET ai == PlanOf(i).stack.ai
            IN  /\ Len(ai) = 2
                /\ ai[1] # ai[2]
                /\ \A k \in 1..Len(ai) : Named("ai", ai[k]) # << >>

\* ------------------------------------------------------------------ C18

\* The score of the candidate of R that carries a name.
ScoreOfName(R, name) ==
    ScoreOf(R[CHOOSE k \in 1..Len(R) : R[k].name = name])

\* The names of a sequence of candidates.
NamesOf(R) == { R[k].name : k \in 1..Len(R) }

\* The entries of a sequence of names.
Listed(names) == { names[k] : k \in 1..Len(names) }

\* C18 (alternatives): for every non-AI decision, the alternatives are at
\* most three names, exactly min(3, remaining - 1) of them, all different,
\* none the chosen name, each the name of another candidate that survived
\* constraint and preference filtering, in descending score order, and no
\* surviving candidate left out scores higher than a listed one.
AlternativesListed ==
    \A i \in Selectors : \A t \in NonAiTopics :
        (Done(i) /\ choice[i][t] # None) =>
            LET R == Remaining(i, t)
                d == DecisionOf(i, t)
                alts == d.alternatives
                others == NamesOf(R) \ { d.choice }
            IN  /\ Len(alts) <= 3
                /\ Len(alts) = (IF Len(R) - 1 < 3 THEN Len(R) - 1 ELSE 3)
                /\ Cardinality(Listed(alts)) = Len(alts)
                /\ Listed(alts) \subseteq others
                /\ \A k \in 1..(Len(alts) - 1) :
                      ScoreOfName(R, alts[k]) >= ScoreOfName(R, alts[k + 1])
                /\ \A n \in others \ Listed(alts) : \A k \in 1..Len(alts) :
                      ScoreOfName(R, n) <= ScoreOfName(R, alts[k])

\* Five queues survive and the tie breaker picks the later of the two top
\* ones: the decision lists its equal first, then the next two by score,
\* and leaves the lowest out; the language decision of the same call, with
\* two candidates, lists one.
AlternativesListedWitness ==
    /\ rules = MismatchRules
    /\ Returned(1)
    /\ Len(Remaining(1, "queue")) = 5
    /\ choice[1]["queue"] = S("Queue5")
    /\ DecisionOf(1, "queue").alternatives = << S("Queue2"), S("Queue4"), S("Queue3") >>
    /\ Len(DecisionOf(1, "language").alternatives) = 1

\* ------------------------------------------------------------------ C19

\* The generic reason of a topic.
Fallback(topic) == << "Selected based on optimal ", topic, " score" >>

\* The conditional reasons of the decision call i made for a non-AI topic,
\* in priority order, each with whether its condition holds of the chosen
\* candidate, of the decision's score and of the blueprint.
ConditionalReasons(i, topic) ==
    LET d == DecisionOf(i, topic)
        c == Named(topic, d.choice)[1]
        compliance == blueprint.constraints.compliance
        asked == IsSome(compliance) /\ compliance[1] # << >>
    IN  << << << "Compatible with " >> \o choice[i]["language"] \o << " language" >>,
              topic = "backend" >>,
           << S("High overall score across all metrics"),
              d.score * 100 > HighScore * ScoreDen >>,
           << S("Excellent performance for latency-sensitive workload"),
              blueprint.traffic_profile.latency_sensitive /\ c.metrics.slo > HighMetric >>,
           << S("Strong security features for compliance requirements"),
              asked /\ c.metrics.security > HighMetric >>,
           << S("HIPAA-compliant infrastructure support"),
              asked /\ Contains(compliance[1], "hipaa") >>,
           << S("SOX compliance with audit trail capabilities"),
              asked /\ Contains(compliance[1], "sox") >>,
           << IF c.notes = << >> THEN << >> ELSE S(c.notes[1]),
              c.notes # << >> >> >>

\* The reasons that fire, in priority order.
Fired(i, topic) ==
    LET fired == SelectSeq(ConditionalReasons(i, topic), LAMBDA r : r[2])
    IN  [k \in 1..Len(fired) |-> fired[k][1]]

\* C19 (reasons are never empty): every decision of a call, the AI decision
\* included, carries at least one reason; a non-AI decision carries the
\* conditional reasons that fire, in priority order, and the generic
\* fallback, alone, exactly when none fires.
ReasonsNeverEmpty ==
    \A i \in Selectors :
        Done(i) =>
            /\ \A k \in 1..Len(decisions[i]) : decisions[i][k].reasons # << >>
            /\ \A t \in NonAiTopics :
                  choice[i][t] # None =>
                     LET reasons == DecisionOf(i, t).reasons
                         fired == Fired(i, t)
                     IN  /\ Contains(reasons, Fallback(t)) <=> fired = << >>
                         /\ fired # << >> => reasons = fired
                         /\ fired = << >> => reasons = << Fallback(t) >>

\* A returned plan in which the language decision carries the high-score
\* reason before the candidate's note, the backend decision the
\* compatibility reason, the infra decision the fallback alone and the AI
\* decision its two fixed reasons.
ReasonsNeverEmptyWitness ==
    /\ rules = WideRules
    /\ Returned(1)
    /\ DecisionOf(1, "language").reasons =
         << S("High overall score across all metrics"), S("Memory safe") >>
    /\ Head(DecisionOf(1, "backend").reasons) = << "Compatible with ", "Rust", " language" >>
    /\ DecisionOf(1, "infra").reasons = << Fallback("infra") >>
    /\ Len(DecisionOf(1, "ai").reasons) = 2

\* ------------------------------------------------------------------ C20

\* A plan with its plan_hash blank.
Blank(p) == [p EXCEPT !.meta.plan_hash = << >>]

\* The plan call i has to return, but for its plan_hash: the decisions as
\* sorted, the stack of the choices, the accumulated cost, the seed as
\* i64 and the hash of the serialised blueprint.
FinalFields(i) ==
    [decisions |-> decisions[i],
     stack |-> BuildStack(i),
     estimated |-> [monthly_cost_usd |-> total_cost[i]],
     meta |-> [seed |-> AsSigned(seed[i]),
               blueprint_hash |-> Sha256Tagged(BlueprintJson(BlueprintOf(i))),
               plan_hash |-> << >>]]

\* The step of call i that fills plan_hash in.
FillStep(i) == pc[i] = "plan_hash" /\ pc'[i] = "done"

\* C20 (two-pass plan fingerprint): the plan_hash of a returned plan is the
\* hash of the serialisation of that plan with plan_hash blank, and the
\* rest of the plan is final: sorted decisions, stack, cost, seed and
\* blueprint_hash; the step that fills plan_hash in starts from a plan with
\* a blank plan_hash, changes no other field of it and returns it.
PlanFingerprint ==
    /\ [](\A i \in Selectors :
            Returned(i) =>
               /\ PlanOf(i).meta.plan_hash = Sha256Tagged(PlanJson(Blank(PlanOf(i))))
               /\ Blank(PlanOf(i)) = FinalFields(i)
               /\ PlanOf(i).decisions = SortDecisions(PlanOf(i).decisions))
    /\ [][\A i \in Selectors :
            FillStep(i) =>
               /\ plan[i][1] = Blank(plan[i][1])
               /\ Blank(plan'[i][1]) = plan[i][1]
               /\ result'[i] = Some(Ok(plan'[i][1]))]_vars

\* Two calls with different seeds returned plans alike in decisions, stack,
\* cost and blueprint_hash, the decisions reordered by the sort: the
\* plan_hash differs, the seed being part of what is hashed.
PlanFingerprintWitness ==
    /\ Returned(1) /\ Returned(2)
    /\ seed[1] # seed[2]
    /\ PlanOf(1).decisions = PlanOf(2).decisions
    /\ PlanOf(1).decisions[1].topic # "language"
    /\ PlanOf(1).stack = PlanOf(2).stack
    /\ PlanOf(1).estimated = PlanOf(2).estimated
    /\ PlanOf(1).meta.blueprint_hash = PlanOf(2).meta.blueprint_hash
    /\ PlanOf(1).meta.plan_hash # PlanOf(2).meta.plan_hash
    /\ PlanOf(1).meta.plan_hash.digest_of = PlanJson(Blank(PlanOf(1)))

\* ------------------------------------------------------------------ C21

\* C21 (the plan records the real seed): meta.seed of every returned plan
\* equals the seed the selector was constructed with, for every seed of
\* the unsigned range.
SeedRecorded ==
    \A i \in Selectors : Returned(i) => PlanOf(i).meta.seed = seed[i]

\* ------------------------------------------------------------------ C22

\* The language candidates that carry the name of the blueprint's mode and
\* pass the constraints.
ModeAdmissible ==
    SelectSeq(rules.candidates.language,
              LAMBDA c : /\ c.name = ModeName(blueprint.single_language_mode[1])
                         /\ check_constraints(c, blueprint))

\* C22 (single-language mode): when the blueprint sets
\* single_language_mode, the language a call chooses, and so stack.language
\* of a returned plan, is the name of the mode; when no admissible language
\* candidate carries that name the call fails with the no-candidate error
\* of language and chooses nothing.
SingleLanguageMode ==
    \A i \in Selectors :
        (Done(i) /\ IsSome(blueprint.single_language_mode)) =>
            /\ Returned(i) =>
                  PlanOf(i).stack.language = ModeName(blueprint.single_language_mode[1])
            /\ choice[i]["language"] # None =>
                  choice[i]["language"] = ModeName(blueprint.single_language_mode[1])
            /\ ModeAdmissible = << >> =>
                  /\ result[i] = Some(Err(NoSuitable("language")))
                  /\ Resolved(i) = { }

\* The mode names TypeScript, which is not the best-scored language of the
\* document, and the returned plan is written in TypeScript.
SingleLanguageModeWitness ==
    /\ rules = TestRules
    /\ blueprint.single_language_mode = Some("ts")
    /\ Returned(1)
    /\ PlanOf(1).stack.language = S("TypeScript")
    /\ PlanOf(1).stack.backend = S("Express")
    /\ ScoreOf(Named("language", S("Rust"))[1]) > ScoreOf(Named("language", S("TypeScript"))[1])

\* ------------------------------------------------- tie_breaker called alone

\* The names test_tie_breaker_properties builds its lists from.
TieNames == { S("Option0"), S("Option1"), S("Option2") }

\* Ordered lists of names, repeats allowed, the empty list included.
NameLists == UNION { [1..n -> TieNames] : n \in 0..MaxNames }

\* The variables of select() while no select() call is made.
NoSelect ==
    /\ rules = EmptyRules
    /\ blueprint = BaseBlueprint
    /\ without_prefs = FALSE
    /\ concurrent = FALSE
    /\ seed = [i \in Selectors |-> 0]
    /\ pc = [i \in Selectors |-> "done"]
    /\ decisions = [i \in Selectors |-> << >>]
    /\ total_cost = [i \in Selectors |-> 0]
    /\ choice = [i \in Selectors |-> [t \in TopicSet |-> None]]
    /\ ai_choices = [i \in Selectors |-> << >>]
    /\ plan = [i \in Selectors |-> None]
    /\ result = [i \in Selectors |-> None]

\* A caller is about to call tie_breaker(topic, seed, candidates), twice.
TieInit ==
    /\ NoSelect
    /\ \E topic \in TopicSet, seed_value \in Seeds, candidates \in NameLists :
          call = [op |-> "tie_breaker", topic |-> topic, seed |-> seed_value,
                  candidates |-> candidates, first |-> None, second |-> None]

\* The first call: what it returns, or the panic it ends in.
CallTieBreaker ==
    /\ call.op = "tie_breaker"
    /\ call.first = None
    /\ call' = [call EXCEPT
                  !.first = Some(tie_breaker(call.topic, call.seed, call.candidates))]
    /\ UNCHANGED << rules, blueprint, without_prefs, concurrent, seed, pc, decisions,
                    total_cost, choice, ai_choices, plan, result >>

\* The same call once more (the panic of the first, if any, was caught).
CallTieBreakerAgain ==
    /\ call.op = "tie_breaker"
    /\ call.first # None
    /\ call.second = None
    /\ call' = [call EXCEPT
                  !.second = Some(tie_breaker(call.topic, call.seed, call.candidates))]
    /\ UNCHANGED << rules, blueprint, without_prefs, concurrent, seed, pc, decisions,
                    total_cost, choice, ai_choices, plan, result >>

TieNext == CallTieBreaker \/ CallTieBreakerAgain

TieSpec == TieInit /\ [][TieNext]_vars

\* ------------------------------------------------------------------ C23

TieBreakerPanicsOnEmpty ==
    (call.op = "tie_breaker" /\ call.candidates = << >>) =>
        \A outcome \in { call.first, call.second } :
            outcome # None =>
               /\ outcome[1] = Panicked
               /\ outcome[1] \notin TieNames
               /\ outcome[1] # << >>

\* The empty list was passed and the call panicked.
TieBreakerPanicsOnEmptyWitness ==
    /\ call.op = "tie_breaker"
    /\ call.candidates = << >>
    /\ call.seed = 2 ^ SeedBits - 1
    /\ call.first = Some(Panicked)

\* ------------------------------------------------------------ schema.rs

\* The text of a blueprint file, as far as validate_blueprint tells texts
\* apart: whether it is YAML or JSON at all, and each field of Blueprint
\* present (Some) or missing (None).
Document(wellformed, project_name, goals, constraints, traffic_profile, prefs, mode) ==
    [wellformed |-> wellformed, project_name |-> project_name, goals |-> goals,
     constraints |-> constraints, traffic_profile |-> traffic_profile,
     prefs |-> prefs, single_language_mode |-> mode]

\* The file a blueprint is written to.
DocumentOf(b) ==
    Document(TRUE, Some(b.project_name), Some(b.goals), Some(b.constraints),
             Some(b.traffic_profile), b.prefs, b.single_language_mode)

\* The fields serde requires of a Blueprint.
RequiredFields == << "project_name", "goals", "constraints", "traffic_profile" >>

\* serde_yaml::from_str(data).or_else(|_| serde_json::from_str(data)): a
\* Blueprint, or the error of a text that is no document or lacks a field.
ParseBlueprint(data) ==
    IF ~data.wellformed
    THEN Err(<< "Failed to parse blueprint: ", "expected value" >>)
    ELSE LET missing == SelectSeq(RequiredFields, LAMBDA f : data[f] = None)
         IN  IF missing # << >>
             THEN Err(<< "Failed to parse blueprint: ", "missing field", missing[1] >>)
             ELSE Ok([project_name |-> data.project_name[1],
                      goals |-> data.goals[1],
                      constraints |-> data.constraints[1],
                      traffic_profile |-> data.traffic_profile[1],
                      prefs |-> data.prefs,
                      single_language_mode |-> data.single_language_mode])

\* A validation that takes a zero peak and a zero cap for missing values.
validate_blueprint_positive(data) ==
    LET parsed == ParseBlueprint(data)
    IN  IF ~parsed.ok THEN parsed
        ELSE IF parsed.value.project_name = ""
        THEN Err(<< "project_name cannot be empty" >>)
        ELSE IF parsed.value.goals = << >>
        THEN Err(<< "goals cannot be empty" >>)
        ELSE IF parsed.value.traffic_profile.rps_peak <= 0
        THEN Err(<< "rps_peak must be positive" >>)
        ELSE IF /\ IsSome(parsed.value.constraints.monthly_cost_usd_max)
                /\ parsed.value.constraints.monthly_cost_usd_max[1] <= 0
        THEN Err(<< "monthly_cost_usd_max must be positive" >>)
        ELSE parsed

\* validate_blueprint, schema.rs lines 148-177; validate_against_schema
\* returns Ok(()) whatever it is given.
validate_blueprint(data) ==
    LET parsed == ParseBlueprint(data)
    IN  IF ~parsed.ok THEN parsed
        ELSE IF parsed.value.project_name = ""
        THEN Err(<< "project_name cannot be empty" >>)
        ELSE IF parsed.value.goals = << >>
        THEN Err(<< "goals cannot be empty" >>)
        ELSE IF parsed.value.traffic_profile.rps_peak < 0
        THEN Err(<< "rps_peak must be non-negative" >>)
        ELSE IF /\ IsSome(parsed.value.constraints.monthly_cost_usd_max)
                /\ parsed.value.constraints.monthly_cost_usd_max[1] < 0
        THEN Err(<< "monthly_cost_usd_max must be non-negative" >>)
        ELSE parsed

\* validate_stack_plan, schema.rs lines 179-198; scores are numerators over
\* ScoreDen.
validate_stack_plan(p) ==
    LET bad == SelectSeq(p.decisions, LAMBDA d : d.score < 0 \/ d.score > ScoreDen)
    IN  IF p.estimated.monthly_cost_usd < 0
        THEN Err(<< "monthly_cost_usd must be non-negative" >>)
        ELSE IF bad # << >>
        THEN Err(<< "Score for ", bad[1].topic, " must be between 0 and 1" >>)
        ELSE Ok(<< >>)

\* ------------------------------------------- validate_blueprint called alone

\* Peak rates and cost caps a file may state, negative ones included.
RpsPeaks == { 0 - 1, 0, BaseBlueprint.traffic_profile.rps_peak }

FileCostCaps == { None, Some(0 - 1), Some(0), Some(500) }

\* The files given to validate_blueprint: texts that are no document, and
\* documents with each required field missing, empty or filled.
Documents ==
    { Document(wellformed, project_name, goals, constraints, traffic_profile, None, None) :
        wellformed \in BOOLEAN,
        project_name \in { None, Some(""), Some(BaseBlueprint.project_name) },
        goals \in { None, Some(<< >>), Some(BaseBlueprint.goals) },
        constraints \in { None } \cup
           { Some([BaseBlueprint.constraints EXCEPT !.monthly_cost_usd_max = cap]) :
               cap \in FileCostCaps },
        traffic_profile \in { None } \cup
           { Some([BaseBlueprint.traffic_profile EXCEPT !.rps_peak = rps]) :
               rps \in RpsPeaks } }

ValidateInit ==
    /\ NoSelect
    /\ \E data \in Documents :
          call = [op |-> "validate_blueprint", data |-> data, outcome |-> None]

\* validate_blueprint(data) returns.
ValidateBlueprint ==
    /\ call.op = "validate_blueprint"
    /\ call.outcome = None
    /\ call' = [call EXCEPT !.outcome = Some(validate_blueprint(call.data))]
    /\ UNCHANGED << rules, blueprint, without_prefs, concurrent, seed, pc, decisions,
                    total_cost, choice, ai_choices, plan, result >>

ValidateNext == ValidateBlueprint

ValidateSpec == ValidateInit /\ [][ValidateNext]_vars

\* ------------------------------------------------------------------ C25

\* What the claim names as grounds to reject a blueprint file.
Rejectable(data) ==
    \/ \E k \in 1..Len(RequiredFields) : data[RequiredFields[k]] = None
    \/ data.project_name = Some("")
    \/ data.goals = Some(<< >>)
    \/ data.traffic_profile[1].rps_peak < 0
    \/ /\ IsSome(data.constraints[1].monthly_cost_usd_max)
       /\ data.constraints[1].monthly_cost_usd_max[1] < 0

\* C25 (blueprint semantic validation): validate_blueprint returns an
\* error and no Blueprint when a required field is missing, when
\* project_name or goals is empty, when rps_peak is negative or when the
\* cost cap is present and negative; any other document is accepted, one
\* with rps_peak 0 and a cost cap of 0 included, and the Blueprint returned
\* holds the fields of the document.
BlueprintValidation ==
    (call.op = "validate_blueprint" /\ call.outcome # None /\ call.data.wellformed) =>
        LET data == call.data
            outcome == call.outcome[1]
        IN  /\ Rejectable(data) => (~outcome.ok /\ "value" \notin DOMAIN outcome)
            /\ ~Rejectable(data) =>
                  /\ outcome.ok
                  /\ DocumentOf(outcome.value) = data

\* A document whose peak rate and cost cap are exactly 0 was accepted.
BlueprintValidationWitness ==
    /\ call.op = "validate_blueprint"
    /\ call.data.wellformed
    /\ call.outcome # None
    /\ call.outcome[1].ok
    /\ call.outcome[1].value.traffic_profile.rps_peak = 0
    /\ call.outcome[1].value.constraints.monthly_cost_usd_max = Some(0)

\* ------------------------------------------------------------------ C26

\* Every candidate of the rules document has a non-negative base cost.
CostsNonNegative ==
    \A t \in TopicSet : \A k \in 1..Len(rules.candidates[t]) :
        rules.candidates[t][k].monthly_cost_base >= 0

ConcurrentInit ==
    /\ rules \in RulesDocuments
    /\ blueprint \in Blueprints
    /\ without_prefs \in { b \in BOOLEAN : b => blueprint.prefs # None }
    /\ concurrent = TRUE
    /\ call = NoCall
    /\ seed \in { [i \in Selectors |-> s] : s \in Seeds }
    /\ pc = [i \in Selectors |-> "language"]
    /\ decisions = [i \in Selectors |-> << >>]
    /\ total_cost = [i \in Selectors |-> 0]
    /\ choice = [i \in Selectors |-> [t \in TopicSet |-> None]]
    /\ ai_choices = [i \in Selectors |-> << >>]
    /\ plan = [i \in Selectors |-> None]
    /\ result = [i \in Selectors |-> None]

ConcurrentSpec == ConcurrentInit /\ [][Next]_vars

\* select(), lines 100-143: the selection a statement of select() makes.
ResolveTopic(self, topic, the_blueprint, language) ==
    CASE topic = "language" -> select_language(self, the_blueprint)
      [] topic = "database" -> select_database(self, the_blueprint)
      [] topic = "ai" -> select_ai(self, the_blueprint)
      [] topic = "backend" -> select_component(self, topic, the_blueprint, Some(language))
      [] OTHER -> select_component(self, topic, the_blueprint, None)

\* select(), lines 100-143: what a statement adds to total_cost.
CostOfDecision(self, topic, d) ==
    CASE topic = "language" -> 0
      [] topic = "ai" ->
           SumSeq([k \in 1..Len(Split(d.choice)) |->
                     get_component_cost(self, "ai", Split(d.choice)[k])])
      [] OTHER -> get_component_cost(self, topic, d.choice)

\* select(), lines 145-199, on the locals of a call that resolved all nine
\* topics.
Conclude(self, the_blueprint, ds, total, chosen) ==
    LET max_cost == the_blueprint.constraints.monthly_cost_usd_max
        unhashed ==
          [decisions |-> SortDecisions(ds),
           stack |-> [language |-> chosen["language"], frontend |-> chosen["frontend"],
                      backend |-> chosen["backend"], database |-> chosen["database"],
                      cache |-> chosen["cache"], queue |-> chosen["queue"],
                      ai |-> Split(chosen["ai"]), infra |-> chosen["infra"],
                      ci_cd |-> chosen["ci_cd"]],
           estimated |-> [monthly_cost_usd |-> total],
           meta |-> [seed |-> AsSigned(self.seed),
                     blueprint_hash |-> calculate_blueprint_hash(BlueprintJson(the_blueprint)),
                     plan_hash |-> << >>]]
    IN  IF IsSome(max_cost) /\ total > max_cost[1]
        THEN Err(BudgetError(max_cost[1]))
        ELSE Ok([unhashed EXCEPT !.meta.plan_hash = calculate_plan_hash(PlanJson(unhashed))])

\* select() from its k-th statement on.
RECURSIVE SelectFrom(_, _, _, _, _, _)
SelectFrom(self, the_blueprint, k, ds, total, chosen) ==
    IF k > Len(Topics) THEN Conclude(self, the_blueprint, ds, total, chosen)
    ELSE LET topic == Topics[k]
             r == ResolveTopic(self, topic, the_blueprint, chosen["language"])
         IN  IF ~r.ok THEN Err(r.error)
             ELSE SelectFrom(self, the_blueprint, k + 1, Append(ds, r.value),
                             total + CostOfDecision(self, topic, r.value),
                             [chosen EXCEPT ![topic] = r.value.choice])

\* Selector::select run alone, from its first statement to its return.
select(self, the_blueprint) ==
    SelectFrom(self, the_blueprint, 1, << >>, 0, [t \in TopicSet |-> None])

\* ------------------------------------------------------------------ C27

\* C27 (concurrent use is safe): in every interleaving of two select()
\* calls on one Selector, each on its own the_blueprint, no step changes the
\* rules or the seed, and every call returns what select() returns on its
\* the_blueprint when run alone.
ConcurrentUseSafe ==
    /\ [](\A i \in Selectors :
            Done(i) => result[i] = Some(select(Self(i), BlueprintOf(i))))
    /\ [][rules' = rules /\ seed' = seed]_vars

\* The second call has returned a plan while the first, on a different
\* blueprint, is between two of its statements with other choices made.
ConcurrentUseSafeWitness ==
    /\ concurrent
    /\ without_prefs
    /\ Returned(2)
    /\ pc[1] = "ai"
    /\ result[2] = Some(select(Self(2), BlueprintOf(2)))
    /\ \E t \in TopicSet : choice[1][t] # None /\ choice[1][t] # choice[2][t]

\* --------------------------------------------------------------- main.rs

\* The needles main() looks for, as they occur in the literal pieces of the
\* error messages; str::contains tells upper case from lower case, so
\* "Output schema validation failed: " holds "schema" and not
\* "output schema".  No needle occurs in a topic, a field name or a piece
\* of another message.
Occurs(segment) ==
    CASE segment = "Failed to parse blueprint: " -> { "Failed to parse blueprint" }
      [] segment = "Output schema validation failed: " -> { "schema" }
      [] segment = "No suitable " -> { "No suitable" }
      [] segment = "No stack found within cost constraint of $" -> { "No stack found" }
      [] OTHER -> { }

\* The pieces of a message that are text; the amount that ends the
\* message of an exceeded cap is a number, and its digits hold no needle.
TextOf(e) == IF Head(e) = Head(BudgetError(0)) THEN << Head(e) >> ELSE e

\* e.contains(needle)
contains(e, needle) == \E k \in 1..Len(TextOf(e)) : needle \in Occurs(TextOf(e)[k])

\* main(), lines 57-66.
ExitCode(e) ==
    IF contains(e, "Failed to parse blueprint") \/ contains(e, "schema") THEN 1
    ELSE IF contains(e, "output schema") THEN 2
    ELSE IF contains(e, "No suitable") \/ contains(e, "No stack found") THEN 3
    ELSE 1

\* The blueprint files given to the command: the file of a blueprint, and
\* that file cut short, without its project name, and without goals.
CliDocuments(b) ==
    { DocumentOf(b),
      [DocumentOf(b) EXCEPT !.wellformed = FALSE],
      [DocumentOf(b) EXCEPT !.project_name = None],
      [DocumentOf(b) EXCEPT !.goals = Some(<< >>)] }

\* `runeforge plan -f file --seed seed`: one process, one select() call.
CliInit ==
    /\ rules \in RulesDocuments
    /\ blueprint \in Blueprints
    /\ without_prefs = FALSE
    /\ concurrent = FALSE
    /\ \E data \in CliDocuments(blueprint) :
          call = [op |-> "plan", data |-> data, exit |-> None]
    /\ seed \in { [i \in Selectors |-> s] : s \in Seeds }
    /\ pc = [i \in Selectors |-> IF i = 1 THEN "load" ELSE "done"]
    /\ decisions = [i \in Selectors |-> << >>]
    /\ total_cost = [i \in Selectors |-> 0]
    /\ choice = [i \in Selectors |-> [t \in TopicSet |-> None]]
    /\ ai_choices = [i \in Selectors |-> << >>]
    /\ plan = [i \in Selectors |-> None]
    /\ result = [i \in Selectors |-> None]

\* run_plan_with_rules, lines 87-106, and main() on its error: the file is
\* validated; a rejected file ends the process, an accepted one is the
\* blueprint select() is called on.
LoadBlueprint ==
    /\ call.op = "plan"
    /\ call.exit = None
    /\ pc[1] = "load"
    /\ LET parsed == validate_blueprint(call.data)
       IN  IF parsed.ok
           THEN /\ parsed.value = blueprint
                /\ pc' = [pc EXCEPT ![1] = "language"]
                /\ UNCHANGED call
           ELSE /\ call' = [call EXCEPT !.exit =
                              Some(ExitCode(<< "Failed to parse blueprint: " >> \o parsed.error))]
                /\ UNCHANGED pc
    /\ UNCHANGED << rules, blueprint, without_prefs, concurrent, seed, decisions,
                    total_cost, choice, ai_choices, plan, result >>

\* run_plan_with_rules, lines 108-125: a selection error is returned as it
\* is, a plan is validated and an error of the validation is wrapped.
RunPlanResult(selected) ==
    IF ~selected.ok THEN Err(selected.error)
    ELSE LET validated == validate_stack_plan(selected.value)
         IN  IF ~validated.ok
             THEN Err(<< "Output schema validation failed: " >> \o validated.error)
             ELSE Ok(<< >>)

\* main(), lines 54-69: the process ends with the code of run_plan's error,
\* or with 0.
Exit ==
    /\ call.op = "plan"
    /\ call.exit = None
    /\ pc[1] = "done"
    /\ result[1] # None
    /\ LET r == RunPlanResult(result[1][1])
       IN  call' = [call EXCEPT !.exit = Some(IF r.ok THEN 0 ELSE ExitCode(r.error))]
    /\ UNCHANGED << rules, blueprint, without_prefs, concurrent, seed, pc, decisions,
                    total_cost, choice, ai_choices, plan, result >>

CliNext == LoadBlueprint \/ Next \/ Exit

CliSpec == CliInit /\ [][CliNext]_vars

\* ------------------------------------------------------------------ C28

Exited == call.op = "plan" /\ call.exit # None

\* C28 (exit codes): the process exits with 1 when the blueprint file is
\* rejected, with 3 when select() fails (no suitable candidate, or no
\* stack within the cap), with 2 when the returned plan fails
\* validate_stack_plan, and with 0 otherwise.
ExitCodes ==
    Exited =>
        call.exit[1] =
            IF ~validate_blueprint(call.data).ok THEN 1
            ELSE IF Failed(1) THEN 3
            ELSE IF ~validate_stack_plan(PlanOf(1)).ok THEN 2
            ELSE 0

\* ------------------------------------------------------------------ C29

\* The scored set select_best builds for a topic of call i.
ScoredSet(i, topic) == ScoredCandidates(Self(i), Remaining(i, topic), BlueprintOf(i))

ScoredNames(i, topic) ==
    { ScoredSet(i, topic)[k][1].name : k \in 1..Len(ScoredSet(i, topic)) }

\* The topics select_best resolves: every topic but ai.
BestTopics == TopicSet \ { "ai" }

\* C29 (tie-breaker precondition): whenever select() is at a topic, or has
\* resolved it, the list select_best hands to tie_breaker for that topic,
\* if it calls it at all, holds at least two names, each the name of a
\* candidate of the topic's scored set; the choice made is one of the
\* names handed over, or the head of the scored set when there was no
\* call, and never the abort of the empty list.
TieBreakerPrecondition ==
    \A i \in Selectors : \A topic \in BestTopics :
        (pc[i] = topic \/ choice[i][topic] # None) =>
            LET args == TieBreakerArgs(ScoredSet(i, topic))
            IN  /\ IsSome(args) =>
                      /\ Len(args[1]) >= 2
                      /\ \A k \in 1..Len(args[1]) : args[1][k] \in ScoredNames(i, topic)
                /\ choice[i][topic] # None =>
                      /\ choice[i][topic] # Panicked
                      /\ IF IsSome(args)
                         THEN \E k \in 1..Len(args[1]) : choice[i][topic] = args[1][k]
                         ELSE choice[i][topic] = ScoredSet(i, topic)[1][1].name

\* A tie of two names, fewer than the scored set holds, was handed to
\* tie_breaker and the second of them came back.
TieBreakerPreconditionWitness ==
    \E topic \in BestTopics :
        LET args == TieBreakerArgs(ScoredSet(1, topic))
        IN  /\ choice[1][topic] # None
            /\ IsSome(args)
            /\ Len(args[1]) = 2
            /\ Len(ScoredSet(1, topic)) > 2
            /\ choice[1][topic] = args[1][2]

\* ------------------------------------------------------------------ C30

\* The candidates select_ai chose: the first two of the admissible AI
\* candidates by rank, as far as there are any.
ChosenAi(i) ==
    LET ranked == Ranked(AdmissibleAi(i))
    IN  [k \in 1..(IF Len(ranked) < 2 THEN Len(ranked) ELSE 2) |-> ranked[k]]

\* What the AI statement of select() added to the total: the total less
\* the costs of the other components.
AiCostAdded(i) ==
    PlanOf(i).estimated.monthly_cost_usd
      - SumSeq([k \in 1..Len(Topics) |->
                  IF Topics[k] = "ai" THEN 0
                  ELSE get_component_cost(Self(i), Topics[k], choice[i][Topics[k]])])

\* C30 (AI names survive the join and the split): stack.ai of every
\* returned plan is the sequence of the names select_ai chose, in rank
\* order, and the cost added for AI is the sum of the base costs of
\* exactly those candidates.
AiRoundTrip ==
    \A i \in Selectors :
        Returned(i) =>
            /\ PlanOf(i).stack.ai = [k \in 1..Len(ChosenAi(i)) |-> ChosenAi(i)[k].name]
            /\ AiCostAdded(i) =
                  SumSeq([k \in 1..Len(ChosenAi(i)) |-> ChosenAi(i)[k].monthly_cost_base])

=============================================================================
